---- MODULE Spec2Model ----
(***************************************************************************)
(* PN-junction simulator: the physics core of src/utils/physics.ts         *)
(* (getDiodeParams, calculateCurrent, calculateDepletionFactor,            *)
(* generateCurveData) and the App state that drives it.                    *)
(*                                                                         *)
(* Every JavaScript number is an IEEE-754 binary64 value.  The model keeps *)
(* that: a number is a record [c, s, m, e] (class, sign, 53-bit            *)
(* significand, exponent) and +, -, *, /, Math.sqrt round to nearest, ties *)
(* to even, exactly as the hardware does.  Significands do not fit TLC's   *)
(* 32-bit integers, so they are little-endian sequences of 15-bit limbs.   *)
(***************************************************************************)
EXTENDS Integers, Sequences, FiniteSets, TLC

RECURSIVE Apply(_, _)

(***************************************************************************)
(* Natural numbers of any size: little-endian sequences of limbs in        *)
(* 0..W-1 with no leading (high) zero limb; <<>> is 0.  The operators are  *)
(* written without recursion (carries are looked ahead, not rippled), so   *)
(* that an arithmetic operation costs TLC a bounded evaluation depth.      *)
(***************************************************************************)
LimbBits == 15
W == 2 ^ LimbBits

Pow2(k) == 2 ^ k

\* The values listed, computed in the order listed; the last one.
Last(vals) == vals[Len(vals)]

\* A function on 1..n as a sequence: TLC then holds its values, not the rule
\* that computes them.
AsSeq(f) == f \o <<>>

Max(S) == CHOOSE x \in S : \A y \in S : y <= x

Limb(a, i) == IF 1 <= i /\ i <= Len(a) THEN a[i] ELSE 0

BNormDef(a) ==
  LET nz == {i \in 1..Len(a) : a[i] /= 0}
  IN  IF nz = {} THEN <<>> ELSE SubSeq(a, 1, Max(nz))

BNorm(a) == Apply("BNorm", <<a>>)

BFromIntDef(n) ==
  BNorm(<<n % W, (n \div W) % W, n \div (W * W)>>)

BFromInt(n) == Apply("BFromInt", <<n>>)

\* The carry into limb i of a sum whose limb sums (before carrying) are t:
\* some limb below generates one and every limb between passes it on.
AddCarry(t, i) ==
  IF \E j \in 1..(i - 1) :
       t[j] >= W /\ \A k \in (j + 1)..(i - 1) : t[k] = W - 1
  THEN 1 ELSE 0

BAddDef(a, b) ==
  LET n == IF Len(a) > Len(b) THEN Len(a) ELSE Len(b)
      t == AsSeq([i \in 1..(n + 1) |-> Limb(a, i) + Limb(b, i)])
  IN  BNorm(AsSeq([i \in 1..(n + 1) |-> (t[i] + AddCarry(t, i)) % W]))

BAdd(a, b) == Apply("BAdd", <<a, b>>)

\* The borrow from limb i of a difference whose limb differences (before
\* borrowing) are t.
SubBorrow(t, i) ==
  IF \E j \in 1..(i - 1) :
       t[j] < 0 /\ \A k \in (j + 1)..(i - 1) : t[k] = 0
  THEN 1 ELSE 0

\* a - b for a >= b
BSubDef(a, b) ==
  LET t == AsSeq([i \in 1..Len(a) |-> a[i] - Limb(b, i)])
  IN  BNorm(AsSeq([i \in 1..Len(a) |-> (t[i] - SubBorrow(t, i) + W) % W]))

BSub(a, b) == Apply("BSub", <<a, b>>)

\* -1, 0, 1 as a < b, a = b, a > b
BCmpDef(a, b) ==
  LET differ == {i \in 1..Len(a) : a[i] /= Limb(b, i)}
  IN  IF Len(a) < Len(b) THEN -1
      ELSE IF Len(a) > Len(b) THEN 1
      ELSE IF differ = {} THEN 0
      ELSE IF a[Max(differ)] < b[Max(differ)] THEN -1
      ELSE 1

BCmp(a, b) == Apply("BCmp", <<a, b>>)

\* a * d for one limb d: the low halves of the limb products plus the high
\* halves one limb up.
BMulLimbDef(a, d) ==
  BAdd(AsSeq([i \in 1..Len(a) |-> (a[i] * d) % W]),
       <<0>> \o [i \in 1..Len(a) |-> (a[i] * d) \div W])

BMulLimb(a, d) == Apply("BMulLimb", <<a, d>>)

\* a * W^q
BShlLimbs(a, q) == IF a = <<>> THEN <<>> ELSE [i \in 1..q |-> 0] \o a

\* The low and the high half of the limb product in prod[i][j], zero
\* outside the table.
ProdLo(prod, i, j) == IF 1 <= j /\ j <= 4 THEN prod[i][j] % W ELSE 0
ProdHi(prod, i, j) == IF 1 <= j /\ j <= 4 THEN prod[i][j] \div W ELSE 0

\* a * b for a, b of at most four limbs: column k collects the low halves
\* of the limb products a[i] * b[j] with i + j = k + 1 and the high halves
\* of those with i + j = k (a sum below 8 * W), and the columns are carried.
BMulDef(a, b) ==
  LET prod == AsSeq([i \in 1..4 |->
                       AsSeq([j \in 1..4 |-> Limb(a, i) * Limb(b, j)])])
      col == AsSeq([k \in 1..8 |->
               ProdLo(prod, 1, k) + ProdLo(prod, 2, k - 1)
               + ProdLo(prod, 3, k - 2) + ProdLo(prod, 4, k - 3)
               + ProdHi(prod, 1, k - 1) + ProdHi(prod, 2, k - 2)
               + ProdHi(prod, 3, k - 3) + ProdHi(prod, 4, k - 4)])
  IN  BAdd(AsSeq([k \in 1..8 |-> col[k] % W]),
           <<0>> \o [k \in 1..8 |-> col[k] \div W])

BMul(a, b) == Apply("BMul", <<a, b>>)

\* a * 2^k
BShlDef(a, k) == BShlLimbs(BMulLimb(a, Pow2(k % LimbBits)), k \div LimbBits)

BShl(a, k) == Apply("BShl", <<a, k>>)

\* floor(a / 2^k)
BShrDef(a, k) ==
  LET q == k \div LimbBits
      r == k % LimbBits
  IN  IF q >= Len(a) THEN <<>>
      ELSE BNorm(AsSeq([i \in 1..(Len(a) - q) |->
                   (a[i + q] \div Pow2(r))
                   + (Limb(a, i + q + 1) % Pow2(r)) * Pow2(LimbBits - r)]))

BShr(a, k) == Apply("BShr", <<a, k>>)

\* bit k of a (bit 0 is the lowest)
BBit(a, k) == (Limb(a, k \div LimbBits + 1) \div Pow2(k % LimbBits)) % 2

\* a mod 2^k is not zero
BLowNonzero(a, k) ==
  \/ \E i \in 1..(k \div LimbBits) : Limb(a, i) /= 0
  \/ Limb(a, k \div LimbBits + 1) % Pow2(k % LimbBits) /= 0

\* The number of bits of one limb: how many powers of two are at most n.
IntBitLen(n) == Cardinality({k \in 0..(LimbBits - 1) : Pow2(k) <= n})

BBitLenDef(a) ==
  IF a = <<>> THEN 0 ELSE (Len(a) - 1) * LimbBits + IntBitLen(a[Len(a)])

BBitLen(a) == Apply("BBitLen", <<a>>)

BOdd(a) == a /= <<>> /\ a[1] % 2 = 1

\* One digit of a long division: qd = floor(r / d) for r < d * W, where the
\* top limb of d is at least W/2, and the product qd * d.  The estimate
\* from the two top limbs of r and the top limb of d is at most 2 too large.
DivDigitDef(r, d) ==
  LET n == Len(d)
      num == Limb(r, n + 1) * W + Limb(r, n)
      est == IF num \div d[n] > W - 1 THEN W - 1 ELSE num \div d[n]
      p0 == BMulLimb(d, est)
      over0 == BCmp(p0, r) > 0
      p1 == IF over0 THEN BSub(p0, d) ELSE p0
      over1 == BCmp(p1, r) > 0
  IN  [qd |-> est - (IF over0 THEN 1 ELSE 0) - (IF over1 THEN 1 ELSE 0),
       prod |-> IF over1 THEN BSub(p1, d) ELSE p1]

DivDigit(r, d) == Apply("DivDigit", <<r, d>>)

\* One step of long division in base W: bring down one limb, find the
\* digit.  st.q is the quotient so far, st.r the remainder (st.r < d).
DivStepDef(st, limb, d) ==
  LET r1 == BNorm(<<limb>> \o st.r)
      dig == DivDigit(r1, d)
  IN  [q |-> <<dig.qd>> \o st.q, r |-> BSub(r1, dig.prod)]

DivStep(st, limb, d) == Apply("DivStep", <<st, limb, d>>)

\* floor(a / d) and the remainder, for d of n limbs with top limb at least
\* W/2 and a of at most n + 4 limbs: the top n - 1 limbs of a are below d,
\* the other limbs are brought down one at a time.
BDivModDef(a, d) ==
  LET low == IF Len(a) < Len(d) THEN 0 ELSE Len(a) - Len(d) + 1
      s0 == [q |-> <<>>, r |-> SubSeq(a, low + 1, Len(a))]
      s1 == IF low >= 5 THEN DivStep(s0, a[5], d) ELSE s0
      s2 == IF low >= 4 THEN DivStep(s1, a[4], d) ELSE s1
      s3 == IF low >= 3 THEN DivStep(s2, a[3], d) ELSE s2
      s4 == IF low >= 2 THEN DivStep(s3, a[2], d) ELSE s3
      s5 == IF low >= 1 THEN DivStep(s4, a[1], d) ELSE s4
      res == Last(<<s1, s2, s3, s4, s5>>)
  IN  [q |-> BNorm(res.q), r |-> res.r]

BDivMod(a, d) == Apply("BDivMod", <<a, d>>)

\* One pass of Newton's iteration for floor(sqrt(a)), from x at or above
\* the root: the smaller of x and floor((x + floor(a / x)) / 2).
SqrtStepDef(a, x) ==
  LET y == BShr(BAdd(x, BDivMod(a, x).q), 1)
  IN  IF BCmp(y, x) < 0 THEN y ELSE x

SqrtStep(a, x) == Apply("SqrtStep", <<a, x>>)

\* floor(sqrt(a)) for 2^118 <= a < 2^120.  From 2^60 - 1 the relative error
\* is at most 1 and each pass squares it: eight passes reach the root.
BSqrtDef(a) ==
  LET x0 == <<W - 1, W - 1, W - 1, W - 1>>
      x1 == SqrtStep(a, x0)
      x2 == SqrtStep(a, x1)
      x3 == SqrtStep(a, x2)
      x4 == SqrtStep(a, x3)
      x5 == SqrtStep(a, x4)
      x6 == SqrtStep(a, x5)
      x7 == SqrtStep(a, x6)
      x8 == SqrtStep(a, x7)
  IN  Last(<<x1, x2, x3, x4, x5, x6, x7, x8>>)

BSqrt(a) == Apply("BSqrt", <<a>>)

(***************************************************************************)
(* IEEE-754 binary64.  A finite number is (-1)^s * m * 2^e with m a        *)
(* natural of at most 53 bits; it is kept canonical (m of exactly 53 bits, *)
(* or e = EMin for a subnormal; zero is m = <<>>, e = 0) so that equal     *)
(* numbers are equal records (+0 and -0 differ in s only).                 *)
(***************************************************************************)
MantBits == 53
EMin == -1074
EMax == 971

Zero(s) == [c |-> "fin", s |-> s, m |-> <<>>, e |-> 0]
Inf(s) == [c |-> "inf", s |-> s, m |-> <<>>, e |-> 0]
NaN == [c |-> "nan", s |-> 0, m |-> <<>>, e |-> 0]

IsNaN(x) == x.c = "nan"
IsInf(x) == x.c = "inf"
IsZero(x) == x.c = "fin" /\ x.m = <<>>
IsFinite(x) == x.c = "fin"

Pack(s, m, e) ==
  IF m = <<>> THEN Zero(s)
  ELSE IF e > EMax THEN Inf(s)
  ELSE [c |-> "fin", s |-> s, m |-> m, e |-> e]

\* The binary64 nearest to (-1)^s * (M + r) * 2^E, ties to even, where
\* 0 < r < 1 when sticky and r = 0 otherwise.
FRoundDef(s, M, E, sticky) ==
  LET L == BBitLen(M)
      e1 == IF E + L - MantBits < EMin THEN EMin ELSE E + L - MantBits
      sh == e1 - E
      q == BShr(M, sh)
      up == /\ BBit(M, sh - 1) = 1
            /\ (sticky \/ BLowNonzero(M, sh - 1) \/ BOdd(q))
      m1 == IF up THEN BAdd(q, <<1>>) ELSE q
  IN  IF M = <<>> THEN Zero(s)
      ELSE IF sh <= 0 THEN Pack(s, BShl(M, -sh), e1)
      ELSE IF BBitLen(m1) > MantBits THEN Pack(s, BShr(m1, 1), e1 + 1)
      ELSE Pack(s, m1, e1)

FRound(s, M, E, sticky) == Apply("FRound", <<s, M, E, sticky>>)

\* A small integer as a number (exact).
FIntDef(n) == IF n < 0 THEN FRound(1, BFromInt(-n), 0, FALSE)
           ELSE FRound(0, BFromInt(n), 0, FALSE)

FInt(n) == Apply("FInt", <<n>>)

FNeg(x) == IF IsNaN(x) THEN x ELSE [x EXCEPT !.s = 1 - x.s]
FAbs(x) == IF IsNaN(x) THEN x ELSE [x EXCEPT !.s = 0]

\* Magnitudes of two finite numbers: -1, 0, 1.
MagCmpDef(x, y) ==
  IF x.m = <<>> \/ y.m = <<>>
  THEN (IF x.m = y.m THEN 0 ELSE IF x.m = <<>> THEN -1 ELSE 1)
  ELSE IF x.e < y.e THEN -1
  ELSE IF x.e > y.e THEN 1
  ELSE BCmp(x.m, y.m)

MagCmp(x, y) == Apply("MagCmp", <<x, y>>)

\* x < y, x <= y, x = y as JavaScript compares numbers (NaN compares false,
\* +0 equals -0).
FLtDef(x, y) ==
  IF IsFinite(x) /\ IsFinite(y)
  THEN (IF x.s /= y.s THEN x.s = 1 /\ ~(IsZero(x) /\ IsZero(y))
        ELSE IF x.s = 0 THEN MagCmp(x, y) < 0
        ELSE MagCmp(x, y) > 0)
  ELSE IF IsNaN(x) \/ IsNaN(y) THEN FALSE
  ELSE IF IsInf(x) THEN x.s = 1 /\ ~(IsInf(y) /\ y.s = 1)
  ELSE y.s = 0

FLt(x, y) == Apply("FLt", <<x, y>>)

FEqDef(x, y) ==
  IF IsNaN(x) \/ IsNaN(y) THEN FALSE
  ELSE IF IsZero(x) /\ IsZero(y) THEN TRUE
  ELSE x = y

FEq(x, y) == Apply("FEq", <<x, y>>)

FLeDef(x, y) == FLt(x, y) \/ FEq(x, y)

FLe(x, y) == Apply("FLe", <<x, y>>)
FGtDef(x, y) == FLt(y, x)

FGt(x, y) == Apply("FGt", <<x, y>>)
FGeDef(x, y) == FLe(y, x)

FGe(x, y) == Apply("FGe", <<x, y>>)

\* How far apart two exponents may be before the smaller operand of a sum
\* only decides the rounding direction.
FarApart == 64

\* x + y for finite nonzero x, y with |x| the operand of larger exponent.
FAddOrderedDef(x, y) ==
  LET far == x.e - y.e > FarApart
      a == IF far THEN BShl(x.m, 2) ELSE BShl(x.m, x.e - y.e)
      b == IF far THEN <<1>> ELSE y.m
      e0 == IF far THEN x.e - 2 ELSE y.e
      cmp == BCmp(a, b)
  IN  IF x.s = y.s
      THEN FRound(x.s, IF far THEN a ELSE BAdd(a, b), e0, far)
      ELSE IF cmp = 0 THEN Zero(0)
      ELSE IF cmp > 0 THEN FRound(x.s, BSub(a, b), e0, far)
      ELSE FRound(y.s, BSub(b, a), e0, far)

FAddOrdered(x, y) == Apply("FAddOrdered", <<x, y>>)

FAddDef(x, y) ==
  IF IsFinite(x) /\ IsFinite(y)
  THEN (IF IsZero(x) \/ IsZero(y)
        THEN (IF ~IsZero(x) THEN x
              ELSE IF ~IsZero(y) THEN y
              ELSE Zero(IF x.s = 1 /\ y.s = 1 THEN 1 ELSE 0))
        ELSE IF x.e >= y.e THEN FAddOrdered(x, y)
        ELSE FAddOrdered(y, x))
  ELSE IF IsNaN(x) \/ IsNaN(y) THEN NaN
  ELSE IF IsInf(x) THEN (IF IsInf(y) /\ x.s /= y.s THEN NaN ELSE x)
  ELSE y

FAdd(x, y) == Apply("FAdd", <<x, y>>)

FSubDef(x, y) == FAdd(x, FNeg(y))

FSub(x, y) == Apply("FSub", <<x, y>>)

FMulDef(x, y) ==
  LET s == IF x.s = y.s THEN 0 ELSE 1
  IN  IF IsFinite(x) /\ IsFinite(y)
      THEN (IF IsZero(x) \/ IsZero(y) THEN Zero(s)
            ELSE FRound(s, BMul(x.m, y.m), x.e + y.e, FALSE))
      ELSE IF IsNaN(x) \/ IsNaN(y) THEN NaN
      ELSE IF IsZero(x) \/ IsZero(y) THEN NaN
      ELSE Inf(s)

FMul(x, y) == Apply("FMul", <<x, y>>)

\* x / y for finite nonzero x, y: both significands are scaled to 60 bits
\* (four full limbs), the dividend is halved when a >= b (a is even), and
\* the quotient of dividend * W^4 by b has 59 or 60 bits.
ScaledBits == 60

FDivFinDef(s, x, y) ==
  LET sa == ScaledBits - BBitLen(x.m)
      sb == ScaledBits - BBitLen(y.m)
      a == BShl(x.m, sa)
      b == BShl(y.m, sb)
      t == IF BCmp(a, b) >= 0 THEN 1 ELSE 0
      res == BDivMod(BShlLimbs(BShr(a, t), 4), b)
  IN  FRound(s, Last(<<a, b, res>>).q, x.e - y.e - sa + sb + t - ScaledBits,
             res.r /= <<>>)

FDivFin(s, x, y) == Apply("FDivFin", <<s, x, y>>)

FDivDef(x, y) ==
  LET s == IF x.s = y.s THEN 0 ELSE 1
  IN  IF IsFinite(x) /\ IsFinite(y)
      THEN (IF IsZero(y) THEN (IF IsZero(x) THEN NaN ELSE Inf(s))
            ELSE IF IsZero(x) THEN Zero(s)
            ELSE FDivFin(s, x, y))
      ELSE IF IsNaN(x) \/ IsNaN(y) THEN NaN
      ELSE IF IsInf(x) THEN (IF IsInf(y) THEN NaN ELSE Inf(s))
      ELSE Zero(s)

FDiv(x, y) == Apply("FDiv", <<x, y>>)

\* Math.sqrt of a finite x > 0: correctly rounded.
FSqrtFinDef(x) ==
  LET k0 == 2 * ScaledBits - BBitLen(x.m)
      k == IF (x.e - k0) % 2 = 0 THEN k0 ELSE k0 - 1
      a == BShl(x.m, k)
      root == BSqrt(a)
  IN  FRound(0, Last(<<a, root>>), (x.e - k) \div 2,
             BCmp(BMul(root, root), a) /= 0)

FSqrtFin(x) == Apply("FSqrtFin", <<x>>)

FSqrtDef(x) ==
  IF IsFinite(x) /\ ~IsZero(x) /\ x.s = 0 THEN FSqrtFin(x)
  ELSE IF IsNaN(x) \/ IsZero(x) THEN x
  ELSE IF x.s = 1 THEN NaN
  ELSE x

FSqrt(x) == Apply("FSqrt", <<x>>)

\* Math.min and Math.max of two numbers (NaN wins; -0 is below +0).
MathMinDef(x, y) ==
  IF IsNaN(x) \/ IsNaN(y) THEN NaN
  ELSE IF FLt(x, y) THEN x
  ELSE IF FLt(y, x) THEN y
  ELSE IF x.s = 1 THEN x ELSE y

MathMin(x, y) == Apply("MathMin", <<x, y>>)

MathMaxDef(x, y) ==
  IF IsNaN(x) \/ IsNaN(y) THEN NaN
  ELSE IF FLt(x, y) THEN y
  ELSE IF FLt(y, x) THEN x
  ELSE IF x.s = 0 THEN x ELSE y

MathMax(x, y) == Apply("MathMax", <<x, y>>)

\* A literal: the finite number m * 2^e, m given by its limbs.
LitDef(m, e) == [c |-> "fin", s |-> 0, m |-> m, e |-> e]

Lit(m, e) == Apply("Lit", <<m, e>>)

\* 10^k for k <= 13 (5^k is below 2^31; the number is exact).
Pow10Def(k) == FRound(0, BFromInt(5 ^ k), k, FALSE)

Pow10(k) == Apply("Pow10", <<k>>)

\* A decimal literal n / 10^k: the nearest binary64, as the JavaScript
\* parser and parseFloat give it.
DecDef(n, k) == FDiv(FInt(n), Pow10(k))

Dec(n, k) == Apply("Dec", <<n, k>>)

\* 2^k for EMin <= k <= 1023
TwoToDef(k) ==
  IF k >= EMin + MantBits - 1
  THEN [c |-> "fin", s |-> 0, m |-> <<0, 0, 0, 128>>, e |-> k - (MantBits - 1)]
  ELSE [c |-> "fin", s |-> 0, m |-> BShl(<<1>>, k - EMin), e |-> EMin]

TwoTo(k) == Apply("TwoTo", <<k>>)

\* (int) x of C: x truncated toward zero, for |x| < 2^30.
TruncToIntDef(x) ==
  IF IsZero(x) THEN 0
  ELSE LET mag == IF x.e >= 0 THEN BShl(x.m, x.e) ELSE BShr(x.m, -x.e)
           n == Limb(mag, 1) + W * Limb(mag, 2)
       IN  IF x.s = 1 THEN -n ELSE n

TruncToInt(x) == Apply("TruncToInt", <<x>>)

(***************************************************************************)
(* Math.exp.  ECMAScript leaves its last bits to the engine; V8 and        *)
(* SpiderMonkey both compute it with fdlibm's __ieee754_exp, which is what *)
(* follows: reduce x = k*ln2 + r with |r| <= 0.5*ln2, approximate exp(r)   *)
(* by a rational function of r, scale by 2^k.  The tests fdlibm makes on   *)
(* the high word of |x| are comparisons of |x| with the number whose high  *)
(* word is the bound and whose low word is 0.                              *)
(***************************************************************************)
\* The constants of fdlibm's e_exp.c.
ExpConst ==
  [OThreshold |-> Lit(<<14831, 32244, 14603, 177>>, -43),      \* 7.09782712893383973096e+02
   UThreshold |-> FNeg(Lit(<<12369, 10842, 9283, 186>>, -43)), \* -7.45133219101941108420e+02
   Ln2Hi |-> Lit(<<0, 32192, 14603, 177>>, -53),               \* 6.93147180369123816490e-01
   Ln2Lo |-> Lit(<<15478, 27378, 26556, 209>>, -85),           \* 1.90821492927058770002e-10
   InvLn2 |-> Lit(<<766, 19031, 21789, 184>>, -52),            \* 1.44269504088896338700e+00
   P1 |-> Lit(<<21822, 10922, 21845, 170>>, -55),              \* 1.66666666666666019037e-01
   P2 |-> FNeg(Lit(<<15763, 11645, 1456, 182>>, -61)),         \* -2.77777777770155933842e-03
   P3 |-> Lit(<<24108, 24139, 22954, 138>>, -66),              \* 6.61375632143793436117e-05
   P4 |-> FNeg(Lit(<<27633, 2980, 29959, 221>>, -72)),         \* -1.65339022054652515390e-06
   P5 |-> Lit(<<9424, 25981, 23973, 177>>, -77),               \* 4.13813679705723846039e-08
   E |-> Lit(<<22377, 5672, 31786, 173>>, -51),                \* 2.718281828459045
   HugeArg |-> Lit(<<0, 0, 14600, 177>>, -43),                 \* high word 0x40862E42
   HalfLn2 |-> Lit(<<0, 0, 14604, 177>>, -54),                 \* high word 0x3FD62E43
   OneAndHalfLn2 |-> Lit(<<0, 0, 2760, 133>>, -52),            \* high word 0x3FF0A2B2
   Tiny |-> TwoTo(-28),                                        \* high word 0x3E300000
   TwoM1000 |-> TwoTo(-1000)]

FOne == FInt(1)
FTwo == FInt(2)
FHalf == TwoTo(-1)

\* exp of the reduced argument: r = hi - lo, result scaled by 2^k.
ExpReducedDef(hi, lo, k) ==
  LET r == IF k = 0 THEN hi ELSE FSub(hi, lo)
      t == FMul(r, r)
      t5 == FMul(t, ExpConst.P5)
      s4 == FAdd(ExpConst.P4, t5)
      t4 == FMul(t, s4)
      s3 == FAdd(ExpConst.P3, t4)
      t3 == FMul(t, s3)
      s2 == FAdd(ExpConst.P2, t3)
      t2 == FMul(t, s2)
      s1 == FAdd(ExpConst.P1, t2)
      t1 == FMul(t, s1)
      cc == FSub(r, t1)
      rc == FMul(r, cc)
      \* k = 0: 1 - ((r*c) / (c - 2) - r)
      d0 == FSub(cc, FTwo)
      q0 == FDiv(rc, d0)
      u0 == FSub(q0, r)
      \* otherwise: y = 1 - ((lo - (r*c) / (2 - c)) - hi)
      d1 == FSub(FTwo, cc)
      q1 == FDiv(rc, d1)
      u1 == FSub(lo, q1)
      v1 == FSub(u1, hi)
      y == FSub(FOne, v1)
      y2 == FMul(y, FTwo)
      yk == FMul(y, TwoTo(k + 1000))
      poly == Last(<<r, t, t5, s4, t4, s3, t3, s2, t2, s1, t1, cc, rc>>)
  IN  IF k = 0 THEN FSub(FOne, Last(<<poly, d0, q0, u0>>))
      ELSE IF k >= -1021
      THEN (IF k = 1024 THEN FMul(Last(<<poly, d1, q1, u1, v1, y, y2>>),
                                  TwoTo(1023))
            ELSE FMul(Last(<<poly, d1, q1, u1, v1, y>>), TwoTo(k)))
      ELSE FMul(Last(<<poly, d1, q1, u1, v1, y, yk>>), ExpConst.TwoM1000)

ExpReduced(hi, lo, k) == Apply("ExpReduced", <<hi, lo, k>>)

\* The reduction for |x| >= 1.5 ln2: k = (int)(invln2 * x +- 0.5),
\* hi = x - k * ln2HI, lo = k * ln2LO.
ExpByReductionDef(x) ==
  LET p == FMul(ExpConst.InvLn2, x)
      h == FAdd(p, IF x.s = 0 THEN FHalf ELSE FNeg(FHalf))
      k == TruncToInt(h)
      t == FInt(k)
      a == FMul(t, ExpConst.Ln2Hi)
      hi == FSub(x, a)
      lo == FMul(t, ExpConst.Ln2Lo)
  IN  ExpReduced(Last(<<p, h, k, t, a, hi>>), Last(<<hi, lo>>), k)

ExpByReduction(x) == Apply("ExpByReduction", <<x>>)

\* The reduction for 0.5 ln2 <= |x| < 1.5 ln2: k = 1 or -1.
ExpNearOneDef(x) ==
  LET hi == IF x.s = 0 THEN FSub(x, ExpConst.Ln2Hi) ELSE FAdd(x, ExpConst.Ln2Hi)
  IN  IF FEq(x, FOne) THEN ExpConst.E
      ELSE IF x.s = 0 THEN ExpReduced(hi, ExpConst.Ln2Lo, 1)
      ELSE ExpReduced(hi, FNeg(ExpConst.Ln2Lo), -1)

ExpNearOne(x) == Apply("ExpNearOne", <<x>>)

MathExpDef(x) ==
  LET ax == FAbs(x)
  IN  IF ~IsFinite(x)
      THEN (IF IsNaN(x) \/ x.s = 0 THEN x ELSE Zero(0))
      ELSE IF FGe(ax, ExpConst.OneAndHalfLn2)
      THEN (IF FGe(ax, ExpConst.HugeArg) /\ FGt(x, ExpConst.OThreshold) THEN Inf(0)
            ELSE IF FGe(ax, ExpConst.HugeArg) /\ FLt(x, ExpConst.UThreshold) THEN Zero(0)
            ELSE ExpByReduction(x))
      ELSE IF FGe(ax, ExpConst.HalfLn2) THEN ExpNearOne(x)
      ELSE IF FLt(ax, ExpConst.Tiny) THEN FAdd(FOne, x)
      ELSE ExpReduced(x, Zero(0), 0)

MathExp(x) == Apply("MathExp", <<x>>)

(***************************************************************************)
(* src/types.ts and src/utils/physics.ts                                   *)
(***************************************************************************)
LIGHT == "Lightly Doped"
MODERATE == "Moderately Doped"
HEAVY == "Heavily Doped"
DopingLevel == {LIGHT, MODERATE, HEAVY}

IDEAL == "Ideal Diode"
NON_IDEAL == "Non-Ideal Diode"
SimulationMode == {IDEAL, NON_IDEAL}

THERMAL_VOLTAGE_VT == Dec(26, 3)

DiodeParams(Is, n, Vbi, Rs, breakdownVoltage) ==
  [Is |-> Is, n |-> n, Vbi |-> Vbi, Rs |-> Rs,
   breakdownVoltage |-> breakdownVoltage]

\* getDiodeParams with the default branch returning the LIGHT record.
getDiodeParamsLightDefault(doping) ==
  IF doping = HEAVY
  THEN DiodeParams(Dec(1, 9), Dec(15, 1), Dec(85, 2), FInt(2), Dec(-45, 1))
  ELSE IF doping = MODERATE
  THEN DiodeParams(Dec(1, 11), Dec(12, 1), Dec(70, 2), FInt(10), FInt(-20))
  ELSE DiodeParams(Dec(1, 12), Dec(11, 1), Dec(60, 2), FInt(25), FInt(-50))

\* getDiodeParams with the LIGHT and HEAVY cases exchanged.
getDiodeParamsHeavyFirst(doping) ==
  IF doping = HEAVY
  THEN DiodeParams(Dec(1, 12), Dec(11, 1), Dec(60, 2), FInt(25), FInt(-50))
  ELSE IF doping = LIGHT
  THEN DiodeParams(Dec(1, 9), Dec(15, 1), Dec(85, 2), FInt(2), Dec(-45, 1))
  ELSE DiodeParams(Dec(1, 11), Dec(12, 1), Dec(70, 2), FInt(10), FInt(-20))

\* The switch of getDiodeParams: MODERATE shares the default branch.
getDiodeParamsDef(doping) ==
  IF doping = LIGHT
  THEN DiodeParams(Dec(1, 12), Dec(11, 1), Dec(60, 2), FInt(25), FInt(-50))
  ELSE IF doping = HEAVY
  THEN DiodeParams(Dec(1, 9), Dec(15, 1), Dec(85, 2), FInt(2), Dec(-45, 1))
  ELSE DiodeParams(Dec(1, 11), Dec(12, 1), Dec(70, 2), FInt(10), FInt(-20))

getDiodeParams(doping) == Apply("getDiodeParams", <<doping>>)

\* The Shockley law without its "- 1": Is * Math.exp(v / (n * Vt)).
ShockleyNoOffset(v, Is, n) ==
  LET nVt == FMul(n, THERMAL_VOLTAGE_VT)
      x == FDiv(v, nVt)
      expTerm == MathExp(x)
  IN  FMul(Is, Last(<<nVt, x, expTerm>>))

\* Is * (Math.exp(v / (n * THERMAL_VOLTAGE_VT)) - 1)
ShockleyDef(v, Is, n) ==
  LET nVt == FMul(n, THERMAL_VOLTAGE_VT)
      x == FDiv(v, nVt)
      expTerm == MathExp(x)
      d == FSub(expTerm, FOne)
  IN  FMul(Is, Last(<<nVt, x, expTerm, d>>))

Shockley(v, Is, n) == Apply("Shockley", <<v, Is, n>>)

\* Ideal mode with the ideality factor left out of the exponent.
IdealCurrentUnitIdeality(voltage, params) ==
  IF FGe(voltage, Zero(0))
  THEN Shockley(voltage, params.Is, FOne)
  ELSE FNeg(params.Is)

\* Ideal mode with the exponential law on both sides of zero.
IdealCurrentSymmetric(voltage, params) ==
  Shockley(voltage, params.Is, params.n)

\* Ideal mode: the exponential law forward, flat -Is in reverse.
IdealCurrentDef(voltage, params) ==
  IF FGe(voltage, Zero(0))
  THEN Shockley(voltage, params.Is, params.n)
  ELSE FNeg(params.Is)

IdealCurrent(voltage, params) == Apply("IdealCurrent", <<voltage, params>>)

NewtonMaxIter == 10
NewtonTolerance == Dec(1, 5)

\* One pass of the loop body: nextVd = Vd - f / df, with
\* f = Vd + Is*Rs*(expTerm - 1) - voltage and df = 1 + Is*Rs*expTerm/(n*Vt).
NewtonNextDef(Vd, voltage, params) ==
  LET nVt == FMul(params.n, THERMAL_VOLTAGE_VT)
      IsRs == FMul(params.Is, params.Rs)
      x == FDiv(Vd, nVt)
      expTerm == MathExp(x)
      f1 == FSub(expTerm, FOne)
      f2 == FMul(IsRs, f1)
      f3 == FAdd(Vd, f2)
      f == FSub(f3, voltage)
      d1 == FMul(IsRs, expTerm)
      d2 == FDiv(d1, nVt)
      df == FAdd(FOne, d2)
      step == FDiv(f, df)
  IN  FSub(Vd, Last(<<nVt, IsRs, x, expTerm, f1, f2, f3, f, d1, d2, df,
                      step>>))

NewtonNext(Vd, voltage, params) == Apply("NewtonNext", <<Vd, voltage, params>>)

\* One turn of the loop that leaves before it keeps a small update.
NewtonPassDropLast(st, voltage, params) ==
  LET nextVd == NewtonNext(st.Vd, voltage, params)
      delta == FSub(nextVd, st.Vd)
      small == FLt(FAbs(delta), NewtonTolerance)
  IN  IF st.converged \/ st.iters >= NewtonMaxIter THEN st
      ELSE [Vd |-> IF small THEN st.Vd ELSE nextVd,
            iters |-> st.iters + 1,
            converged |-> small]

\* One turn of the for loop, on the loop's state: the junction voltage Vd,
\* the number of passes made, and whether the loop has left by break.
NewtonPassDef(st, voltage, params) ==
  LET nextVd == NewtonNext(st.Vd, voltage, params)
      delta == FSub(nextVd, st.Vd)
  IN  IF st.converged \/ st.iters >= NewtonMaxIter THEN st
      ELSE [Vd |-> nextVd,
            iters |-> st.iters + 1,
            converged |-> FLt(FAbs(delta), NewtonTolerance)]

NewtonPass(st, voltage, params) == Apply("NewtonPass", <<st, voltage, params>>)

\* The for loop, from Vd = voltage: at most NewtonMaxIter turns.
NewtonLoopDef(voltage, params) ==
  LET s0 == [Vd |-> voltage, iters |-> 0, converged |-> FALSE]
      s1 == NewtonPass(s0, voltage, params)
      s2 == NewtonPass(s1, voltage, params)
      s3 == NewtonPass(s2, voltage, params)
      s4 == NewtonPass(s3, voltage, params)
      s5 == NewtonPass(s4, voltage, params)
      s6 == NewtonPass(s5, voltage, params)
      s7 == NewtonPass(s6, voltage, params)
      s8 == NewtonPass(s7, voltage, params)
      s9 == NewtonPass(s8, voltage, params)
      s10 == NewtonPass(s9, voltage, params)
  IN  Last(<<s1, s2, s3, s4, s5, s6, s7, s8, s9, s10>>)

NewtonLoop(voltage, params) == Apply("NewtonLoop", <<voltage, params>>)

\* if (Vd > voltage) Vd = voltage
ClampVdDef(Vd, voltage) == IF FGt(Vd, voltage) THEN voltage ELSE Vd

ClampVd(Vd, voltage) == Apply("ClampVd", <<Vd, voltage>>)

\* Non-ideal forward bias with the whole applied voltage across the junction.
ForwardCurrentNoDrop(voltage, params) ==
  Shockley(voltage, params.Is, params.n)

\* Non-ideal forward bias: solve for the junction voltage, clamp, Shockley.
ForwardCurrentDef(voltage, params) ==
  LET sol == NewtonLoop(voltage, params)
      Vd == ClampVd(sol.Vd, voltage)
  IN  Shockley(Last(<<sol, Vd>>), params.Is, params.n)

ForwardCurrent(voltage, params) == Apply("ForwardCurrent", <<voltage, params>>)

LeakageConductance == Dec(1, 8)
BreakdownScale == FInt(1000)

\* A reverse branch without breakdown.
NoBreakdownCurrent(voltage, params) == Zero(0)

\* A breakdown term that sets in at full size: -Is * Math.exp(diff * 2) * 1000.
BreakdownCurrentWithJump(voltage, params) ==
  LET diff == FSub(params.breakdownVoltage, voltage)
      a == FMul(FNeg(params.Is), MathExp(FMul(diff, FTwo)))
  IN  IF FLt(voltage, params.breakdownVoltage)
      THEN FMul(Last(<<diff, a>>), BreakdownScale)
      ELSE Zero(0)

\* The soft-knee breakdown term of the reverse branch:
\* -Is * (Math.exp(diff * 2) - 1) * 1000 below the breakdown voltage.
BreakdownCurrentDef(voltage, params) ==
  LET diff == FSub(params.breakdownVoltage, voltage)
      x == FMul(diff, FTwo)
      expTerm == MathExp(x)
      d == FSub(expTerm, FOne)
      a == FMul(FNeg(params.Is), d)
  IN  IF FLt(voltage, params.breakdownVoltage)
      THEN FMul(Last(<<diff, x, expTerm, d, a>>), BreakdownScale)
      ELSE Zero(0)

BreakdownCurrent(voltage, params) == Apply("BreakdownCurrent", <<voltage, params>>)

\* The reverse branch without the leakage term.
ReverseCurrentNoLeakage(voltage, params) ==
  FAdd(Shockley(voltage, params.Is, params.n),
       BreakdownCurrent(voltage, params))

\* Non-ideal reverse bias: shockley + leakage + breakdown.
ReverseCurrentDef(voltage, params) ==
  LET leakageCurrent == FMul(voltage, LeakageConductance)
      shockleyCurrent == Shockley(voltage, params.Is, params.n)
      breakdownCurrent == BreakdownCurrent(voltage, params)
      sum == FAdd(shockleyCurrent, leakageCurrent)
  IN  FAdd(Last(<<leakageCurrent, shockleyCurrent, breakdownCurrent, sum>>),
           breakdownCurrent)

ReverseCurrent(voltage, params) == Apply("ReverseCurrent", <<voltage, params>>)

calculateCurrentDef(voltage, params, mode) ==
  IF mode = IDEAL THEN IdealCurrent(voltage, params)
  ELSE IF FGe(voltage, Zero(0)) THEN ForwardCurrent(voltage, params)
  ELSE ReverseCurrent(voltage, params)

calculateCurrent(voltage, params, mode) == Apply("calculateCurrent", <<voltage, params, mode>>)

DepletionClamp == Dec(5, 2)
DepletionMin == Dec(1, 1)
DepletionMax == FInt(3)

\* The radicand with the sign of V_effective turned: Vbi + V_effective.
DepletionRadicandSum(voltage, Vbi) ==
  LET cap == FSub(Vbi, DepletionClamp)
      V_effective == MathMin(voltage, cap)
  IN  FAdd(Vbi, Last(<<cap, V_effective>>))

\* Vbi - V_effective, with V_effective = Math.min(voltage, Vbi - 0.05)
DepletionRadicandDef(voltage, Vbi) ==
  LET cap == FSub(Vbi, DepletionClamp)
      V_effective == MathMin(voltage, cap)
  IN  FSub(Vbi, Last(<<cap, V_effective>>))

DepletionRadicand(voltage, Vbi) == Apply("DepletionRadicand", <<voltage, Vbi>>)

\* The factor without the closing clamp: w itself.
DepletionFactorUnclamped(voltage, Vbi) ==
  LET rad == DepletionRadicand(voltage, Vbi)
      num == FSqrt(rad)
      den == FSqrt(Vbi)
  IN  FDiv(num, Last(<<rad, num, den>>))

\* The factor without the division by sqrt(Vbi).
DepletionFactorUnnormalised(voltage, Vbi) ==
  LET rad == DepletionRadicand(voltage, Vbi)
      w == FSqrt(rad)
      capped == MathMin(DepletionMax, w)
  IN  MathMax(DepletionMin, Last(<<rad, w, capped>>))

calculateDepletionFactorDef(voltage, Vbi) ==
  LET rad == DepletionRadicand(voltage, Vbi)
      num == FSqrt(rad)
      den == FSqrt(Vbi)
      w == FDiv(num, den)
      capped == MathMin(DepletionMax, w)
  IN  MathMax(DepletionMin, Last(<<rad, num, den, w, capped>>))

calculateDepletionFactor(voltage, Vbi) == Apply("calculateDepletionFactor", <<voltage, Vbi>>)

\* DiodeCanvas: the width in pixels of the depletion region that is drawn.
BASE_DEPLETION_WIDTH == 120

currentDepletionWidth(depletionFactor) ==
  FMul(FInt(BASE_DEPLETION_WIDTH), depletionFactor)

(***************************************************************************)
(* generateCurveData: the bounds of its sweep and the point it pushes.      *)
(***************************************************************************)
SweepStart == FInt(-5)
SweepEnd == FInt(5)
SweepStep == Dec(1, 1)
MilliAmps == FInt(1000)

\* Number.prototype.toFixed(2) of a finite x: the sign and the integer n
\* for which n / 100 is nearest to |x|, the larger n when two are as near.
\* |x| * 100 is hundred * 2^x.e exactly.
ToFixed2Def(x) ==
  LET hundred == BMulLimb(x.m, 100)
      floor == BShr(hundred, -x.e)
      n == IF x.e >= 0 THEN BShl(hundred, x.e)
           ELSE IF BBit(hundred, -x.e - 1) = 1 THEN BAdd(floor, <<1>>)
           ELSE floor
  IN  [neg |-> x.s = 1 /\ ~IsZero(x), n |-> n]

ToFixed2(x) == Apply("ToFixed2", <<x>>)

\* parseFloat of the string toFixed(2) gave: the number nearest to n / 100.
ParseFixed2Def(str) ==
  LET q == FDiv(FRound(0, str.n, 0, FALSE), FInt(100))
  IN  IF str.neg THEN FNeg(q) ELSE q

ParseFixed2(str) == Apply("ParseFixed2", <<str>>)

\* The loop variable as it is pushed, unrounded.
vRaw(x) == x

\* const vFixed = parseFloat(v.toFixed(2))
vFixedDef(x) == ParseFixed2(ToFixed2(x))

vFixed(x) == Apply("vFixed", <<x>>)

\* A point whose current is taken at the loop variable itself.
CurvePointAtLoopValue(x, p, m) ==
  [v |-> vFixed(x), i |-> FMul(calculateCurrent(x, p, m), MilliAmps)]

\* One point { v, i } of a series, from the loop variable x: the current in
\* mA at vFixed.
CurvePointDef(x, p, m) ==
  LET at == vFixed(x)
      amps == calculateCurrent(at, p, m)
  IN  [v |-> at, i |-> FMul(Last(<<at, amps>>), MilliAmps)]

CurvePoint(x, p, m) == Apply("CurvePoint", <<x, p, m>>)

\* Ten values of the loop variable in a row, from x on: x, x + 0.1, ...
SweepBlockDef(x) ==
  LET x1 == FAdd(x, SweepStep)
      x2 == FAdd(x1, SweepStep)
      x3 == FAdd(x2, SweepStep)
      x4 == FAdd(x3, SweepStep)
      x5 == FAdd(x4, SweepStep)
      x6 == FAdd(x5, SweepStep)
      x7 == FAdd(x6, SweepStep)
      x8 == FAdd(x7, SweepStep)
      x9 == FAdd(x8, SweepStep)
  IN  Last(<<x1, x2, x3, x4, x5, x6, x7, x8, x9,
             <<x, x1, x2, x3, x4, x5, x6, x7, x8, x9>>>>)

SweepBlock(x) == Apply("SweepBlock", <<x>>)

\* The values the loop variable takes while the guard holds:
\* v = x; v <= 5; v += 0.1, ten at a time up to the first one above 5.
RECURSIVE SweepFrom(_)
SweepFrom(x) ==
  LET block == SweepBlock(x)
      above == {k \in 1..Len(block) : ~FLe(block[k], SweepEnd)}
      first == CHOOSE k \in above : \A j \in above : k <= j
  IN  IF above = {}
        THEN block \o SweepFrom(FAdd(block[Len(block)], SweepStep))
        ELSE SubSeq(block, 1, first - 1)

SweepValuesDef == SweepFrom(SweepStart)

SweepValues == Apply("SweepValues", <<>>)

\* generateCurveData(params) as one value: the two arrays it returns.
generateCurveDataDef(p) ==
  LET xs == SweepValues
  IN  [idealPoints |->
         AsSeq([k \in 1..Len(xs) |-> CurvePoint(xs[k], p, IDEAL)]),
       nonIdealPoints |->
         AsSeq([k \in 1..Len(xs) |-> CurvePoint(xs[k], p, NON_IDEAL)])]

generateCurveData(p) == Apply("generateCurveData", <<p>>)

(***************************************************************************)
(* IVGraph: the rows it hands to the chart.                                *)
(***************************************************************************)
\* Reading .i of an element past the end of an array throws.
TypeError == [thrown |-> "TypeError"]

\* The merge with the second series read one place further on.
IVGraphDataShifted(idealPoints, nonIdealPoints) ==
  AsSeq([k \in 1..Len(idealPoints) |->
           IF k + 1 \in DOMAIN nonIdealPoints
             THEN [v |-> idealPoints[k].v, ideal |-> idealPoints[k].i,
                   nonIdeal |-> nonIdealPoints[k + 1].i]
             ELSE TypeError])

\* idealPoints.map((p, i) => ({ v: p.v, ideal: p.i,
\*                              nonIdeal: nonIdealPoints[i].i }))
IVGraphData(idealPoints, nonIdealPoints) ==
  AsSeq([k \in 1..Len(idealPoints) |->
           IF k \in DOMAIN nonIdealPoints
             THEN [v |-> idealPoints[k].v, ideal |-> idealPoints[k].i,
                   nonIdeal |-> nonIdealPoints[k].i]
             ELSE TypeError])

(***************************************************************************)
(* App, ExplanationPanel and DiodeCanvas: the label of the bias and the     *)
(* texts that depend on the voltage.                                       *)
(***************************************************************************)
\* The bias labels, word by word, and String.prototype.includes for a word.
UNBIASED == <<"Unbiased">>
FORWARD_BIAS == <<"Forward", "Bias">>
BREAKDOWN_REGION == <<"Breakdown", "Region">>
REVERSE_BIAS == <<"Reverse", "Bias">>

Includes(label, word) == \E k \in DOMAIN label : label[k] = word

\* The label with the test for reverse bias ahead of the test for breakdown.
BiasTypeReverseFirst(voltage, params) ==
  IF FGt(voltage, Dec(5, 2)) THEN FORWARD_BIAS
  ELSE IF FLt(voltage, Dec(-5, 2)) THEN REVERSE_BIAS
  ELSE IF FLt(voltage, FAdd(params.breakdownVoltage, FHalf))
    THEN BREAKDOWN_REGION
  ELSE UNBIASED

\* Bias Type Helper of App
BiasTypeHelperDef(voltage, params) ==
  IF FGt(voltage, Dec(5, 2)) THEN FORWARD_BIAS
  ELSE IF FLt(voltage, FAdd(params.breakdownVoltage, FHalf))
    THEN BREAKDOWN_REGION
  ELSE IF FLt(voltage, Dec(-5, 2)) THEN REVERSE_BIAS
  ELSE UNBIASED

BiasTypeHelper(voltage, params) ==
  Apply("BiasTypeHelper", <<voltage, params>>)

\* ExplanationPanel: the sections whose condition holds.
ExplanationSections(voltage, params, label) ==
  LET isBreakdown == FLe(voltage, params.breakdownVoltage)
  IN  {section \in {"equilibrium", "forward", "reverse", "breakdown"} :
         \/ section = "equilibrium" /\ label = UNBIASED
         \/ section = "forward" /\ Includes(label, "Forward")
         \/ section = "reverse" /\ Includes(label, "Reverse") /\ ~isBreakdown
         \/ section = "breakdown"
              /\ (Includes(label, "Breakdown") \/ isBreakdown)}

\* DiodeCanvas: the text of the current vector overlay, if any is drawn.
CanvasOverlay(voltage) ==
  IF ~FGt(FAbs(voltage), Dec(2, 1)) THEN <<>>
  ELSE IF FGt(voltage, Zero(0)) THEN <<"Diffusion Current">>
  ELSE IF FLt(voltage, Dec(-1, 1))
    THEN IF FGt(voltage, FInt(-4)) THEN <<"Drift (Minority)">>
         ELSE <<"Breakdown!">>
  ELSE <<>>

\* DiodeCanvas: the captions of the footer whose condition holds.
CanvasCaption(voltage, params) ==
  {caption \in {"equilibrium", "lowered", "increased", "reached"} :
     \/ caption = "equilibrium" /\ FEq(voltage, Zero(0))
     \/ caption = "lowered" /\ FGt(voltage, Zero(0))
     \/ caption = "increased" /\ FLt(voltage, Zero(0))
                              /\ FGt(voltage, params.breakdownVoltage)
     \/ caption = "reached" /\ FLe(voltage, params.breakdownVoltage)}

(***************************************************************************)
(* App.tsx and IVGraph.tsx: what a render computes from the state and the  *)
(* props.  A cell of useMemo holds the dependencies of the last            *)
(* computation and its value.                                              *)
(***************************************************************************)
\* useMemo with an empty list of dependencies: the first value for ever.
useMemoOnce(memo, d) ==
  IF memo.deps = <<>>
    THEN [deps |-> <<d>>, value |-> Apply("getDiodeParams", <<d>>)]
    ELSE memo

\* useMemo(() => getDiodeParams(doping), [doping])
useMemoParams(memo, d) ==
  IF memo.deps = <<d>>
    THEN memo
    ELSE [deps |-> <<d>>, value |-> Apply("getDiodeParams", <<d>>)]

\* The Derived Physics of a render of App: params, current and biasType.
DerivedPhysicsDef(voltage, doping, mode, memo) ==
  LET cell == useMemoParams(memo, doping)
  IN  [paramsMemo |-> cell,
       current |-> calculateCurrent(voltage, cell.value, mode),
       biasType |-> BiasTypeHelper(voltage, cell.value)]

DerivedPhysics(voltage, doping, mode, memo) ==
  Apply("DerivedPhysics", <<voltage, doping, mode, memo>>)

\* useMemo with an empty list of dependencies, for the curve.
useMemoCurveOnce(memo, p, generated) ==
  IF memo.deps = <<>> THEN [deps |-> <<p>>, value |-> generated[p]] ELSE memo

\* useMemo(() => generateCurveData(params), [params]); generateCurveData is
\* a function of params alone, and generated holds its values.
useMemoCurve(memo, p, generated) ==
  IF memo.deps = <<p>> THEN memo ELSE [deps |-> <<p>>, value |-> generated[p]]

\* A render of IVGraph: the cell of its useMemo and the operating point in
\* mA.
IVGraphRenderDef(currentVoltage, params, mode, memo, generated) ==
  [memo |-> useMemoCurve(memo, params, generated),
   currentI |-> FMul(calculateCurrent(currentVoltage, params, mode),
                     MilliAmps)]

IVGraphRender(currentVoltage, params, mode, memo, generated) ==
  Apply("IVGraphRender", <<currentVoltage, params, mode, memo, generated>>)

(***************************************************************************)
(* DiodeCanvas.tsx: the particles of the junction drawing.                 *)
(***************************************************************************)
WIDTH == 800
HEIGHT == 300
NUM_PARTICLES == 120

\* Math.random(): the values a draw takes here are the least one, the
\* greatest one below 1 and the middle one.  The draws of one run are the
\* values in this order, over and over, from the place the run starts at.
RandomValues == <<Zero(0), FSub(FOne, TwoTo(-53)), FHalf>>
RandomPhases == 0..2

\* A particle of initParticles from its four draws, in the order the object
\* literal evaluates them.
Particle(pid, type, r) ==
  LET centre == FDiv(FInt(WIDTH), FTwo)
  IN  [id |-> pid,
       x |-> IF type = "hole"
               THEN FMul(r[1], FSub(centre, FInt(10)))
               ELSE FAdd(FAdd(centre, FInt(10)),
                         FMul(r[1], FSub(centre, FInt(20)))),
       y |-> FMul(r[2], FInt(HEIGHT)),
       vx |-> FMul(FSub(r[3], FHalf), Dec(8, 1)),
       vy |-> FMul(FSub(r[4], FHalf), Dec(8, 1)),
       type |-> type]

\* initParticles fills the array with the holes and then with the
\* electrons, the ids counting from 0.  The particle pid takes the draws
\* 4 * pid to 4 * pid + 3 (the electrons' draws follow the holes'), so that
\* particles whose first draws are at the same place of RandomValues differ
\* in the id only: made holds one particle for each type and place.
initParticlesDef(phase) ==
  LET rv == RandomValues
      n == Len(rv)
      random(k) == rv[((phase + k) % n) + 1]
      made == AsSeq([j \in 1..(2 * n) |->
                Particle(0, IF j <= n THEN "hole" ELSE "electron",
                         <<random(j), random(j + 1), random(j + 2),
                           random(j + 3)>>)])
  IN  AsSeq([k \in 1..(2 * NUM_PARTICLES) |->
        LET pid == k - 1
            place == ((4 * pid) % n) + 1
        IN  [made[IF pid < NUM_PARTICLES THEN place ELSE n + place]
               EXCEPT !.id = pid]])

initParticles(phase) == Apply("initParticles", <<phase>>)

\* What render computes from the props before it moves the particles.
CanvasGeometry(voltage, params) ==
  LET depletionFactor == calculateDepletionFactor(voltage, params.Vbi)
      half == FDiv(currentDepletionWidth(depletionFactor), FTwo)
      centre == FDiv(FInt(WIDTH), FTwo)
  IN  [CENTER_X |-> centre,
       WIDTH |-> FInt(WIDTH),
       HEIGHT |-> FInt(HEIGHT),
       depletionLeft |-> FSub(centre, half),
       depletionRight |-> FAdd(centre, half),
       biasFieldStrength |-> FMul(voltage, Dec(15, 2)),
       effectiveBarrierHeight |-> MathMax(Zero(0), FSub(params.Vbi, voltage))]

\* Thermal Motion and Boundary Reflection (Top/Bottom).
ThermalMotion(p, speed, g) ==
  LET y1 == FAdd(p.y, FMul(p.vy, speed))
  IN  [p EXCEPT !.x = FAdd(p.x, FMul(p.vx, speed)),
                !.y = y1,
                !.vy = IF FLt(y1, Zero(0)) \/ FGt(y1, g.HEIGHT)
                         THEN FMul(p.vy, FInt(-1))
                         ELSE p.vy]

\* Bias Drift: holes to the right under forward bias, electrons to the left.
BiasDrift(p, speed, g) ==
  [p EXCEPT !.x = IF p.type = "hole"
                    THEN FAdd(p.x, FMul(g.biasFieldStrength, speed))
                    ELSE FSub(p.x, FMul(g.biasFieldStrength, speed))]

\* The particle has entered the depletion zone from its own side.
InDepletionZone(p, g) ==
  IF p.type = "hole"
    THEN FGt(p.x, g.depletionLeft) /\ FLt(p.x, g.CENTER_X)
    ELSE FLt(p.x, g.depletionRight) /\ FGt(p.x, g.CENTER_X)

\* Barrier Interaction: in the zone, the draw r decides the bounce.
BarrierInteraction(p, r, g) ==
  IF InDepletionZone(p, g) /\ FLt(FMul(r, FTwo), g.effectiveBarrierHeight)
    THEN IF p.type = "hole"
           THEN [p EXCEPT !.vx = FNeg(FAbs(p.vx)),
                          !.x = FSub(g.depletionLeft, FOne)]
           ELSE [p EXCEPT !.vx = FAbs(p.vx),
                          !.x = FAdd(g.depletionRight, FOne)]
    ELSE p

\* Loop/Recombination, the first test of each branch.
RecombinationOneSided(p, r, g) ==
  IF p.type = "hole"
    THEN IF FGt(p.x, g.WIDTH)
           THEN [p EXCEPT !.x = Zero(0), !.y = FMul(r, g.HEIGHT)]
           ELSE p
    ELSE IF FLt(p.x, Zero(0))
           THEN [p EXCEPT !.x = g.WIDTH, !.y = FMul(r, g.HEIGHT)]
           ELSE p

\* Loop/Recombination: a hole past the right edge comes back at 0, at a
\* height drawn anew (r), and one past the left edge at WIDTH; an electron
\* the other way round.  The second test reads the x the first one left.
Recombination(p, r, g) ==
  LET first == RecombinationOneSided(p, r, g)
  IN  IF p.type = "hole"
        THEN IF FLt(first.x, Zero(0)) THEN [first EXCEPT !.x = g.WIDTH]
             ELSE first
        ELSE IF FGt(first.x, g.WIDTH) THEN [first EXCEPT !.x = Zero(0)]
             ELSE first

\* The body of the forEach of render for one particle: r holds the draws of
\* Math.random the particle takes, in their order (the draw of the loop
\* follows the draw of the zone, if that was made).  The id is not read.
updateParticleDef(p, r, speed, g) ==
  LET drifted == BiasDrift(ThermalMotion(p, speed, g), speed, g)
      draws == IF InDepletionZone(drifted, g) THEN r ELSE <<r[1], r[1]>>
      turned == BarrierInteraction(drifted, draws[1], g)
  IN  Last(<<drifted, draws, turned, Recombination(turned, draws[2], g)>>)

updateParticle(p, r, speed, g) == Apply("updateParticle", <<p, r, speed, g>>)

\* render, as far as the particles go: the forEach under isPlaying.  The
\* particle at index k takes its draws from the place phase + k of
\* RandomValues.  Particles that differ in the id only, with the same
\* draws, move alike: moved holds the particle after the update for each
\* such case, and each particle takes its own from it, keeping its id.
renderParticlesDef(particles, voltage, params, isPlaying, speed, phase) ==
  IF ~isPlaying THEN particles
  ELSE
    LET rv == RandomValues
        n == Len(rv)
        g == CanvasGeometry(voltage, params)
        case(k) == <<[particles[k] EXCEPT !.id = 0], (phase + k) % n>>
        cases == {case(k) : k \in DOMAIN particles}
        moved == [c \in cases |->
                   updateParticle(c[1],
                                  <<rv[c[2] + 1], rv[((c[2] + 1) % n) + 1]>>,
                                  speed, g)] @@ <<>>
    IN  Last(<<rv, g, cases, moved,
               AsSeq([k \in DOMAIN particles |->
                 [moved[case(k)] EXCEPT !.id = particles[k].id]])>>)

renderParticles(particles, voltage, params, isPlaying, speed, phase) ==
  Apply("renderParticles",
        <<particles, voltage, params, isPlaying, speed, phase>>)

(***************************************************************************)
(* The table of the operators: Apply(op, args) is the value of operator op *)
(* on the arguments args.  The arithmetic is used through it (FMul(x, y)   *)
(* is Apply("FMul", <<x, y>>), which is FMulDef(x, y)), and so are the     *)
(* functions of physics.ts when they are called, so that the definition of *)
(* an operator is one place of the model however many expressions use it.  *)
(***************************************************************************)
Apply(op, args) ==
  CASE op = "BAdd" -> BAddDef(args[1], args[2])
    [] op = "BSub" -> BSubDef(args[1], args[2])
    [] op = "BNorm" -> BNormDef(args[1])
    [] op = "BCmp" -> BCmpDef(args[1], args[2])
    [] op = "BMulLimb" -> BMulLimbDef(args[1], args[2])
    [] op = "BMul" -> BMulDef(args[1], args[2])
    [] op = "BShl" -> BShlDef(args[1], args[2])
    [] op = "BShr" -> BShrDef(args[1], args[2])
    [] op = "BBitLen" -> BBitLenDef(args[1])
    [] op = "BFromInt" -> BFromIntDef(args[1])
    [] op = "DivDigit" -> DivDigitDef(args[1], args[2])
    [] op = "DivStep" -> DivStepDef(args[1], args[2], args[3])
    [] op = "BDivMod" -> BDivModDef(args[1], args[2])
    [] op = "SqrtStep" -> SqrtStepDef(args[1], args[2])
    [] op = "BSqrt" -> BSqrtDef(args[1])
    [] op = "FRound" -> FRoundDef(args[1], args[2], args[3], args[4])
    [] op = "MagCmp" -> MagCmpDef(args[1], args[2])
    [] op = "FLt" -> FLtDef(args[1], args[2])
    [] op = "FEq" -> FEqDef(args[1], args[2])
    [] op = "FLe" -> FLeDef(args[1], args[2])
    [] op = "FGt" -> FGtDef(args[1], args[2])
    [] op = "FGe" -> FGeDef(args[1], args[2])
    [] op = "FAddOrdered" -> FAddOrderedDef(args[1], args[2])
    [] op = "FAdd" -> FAddDef(args[1], args[2])
    [] op = "FSub" -> FSubDef(args[1], args[2])
    [] op = "FMul" -> FMulDef(args[1], args[2])
    [] op = "FDivFin" -> FDivFinDef(args[1], args[2], args[3])
    [] op = "FDiv" -> FDivDef(args[1], args[2])
    [] op = "FSqrtFin" -> FSqrtFinDef(args[1])
    [] op = "FSqrt" -> FSqrtDef(args[1])
    [] op = "FInt" -> FIntDef(args[1])
    [] op = "MathMin" -> MathMinDef(args[1], args[2])
    [] op = "MathMax" -> MathMaxDef(args[1], args[2])
    [] op = "Lit" -> LitDef(args[1], args[2])
    [] op = "Pow10" -> Pow10Def(args[1])
    [] op = "Dec" -> DecDef(args[1], args[2])
    [] op = "TwoTo" -> TwoToDef(args[1])
    [] op = "TruncToInt" -> TruncToIntDef(args[1])
    [] op = "ExpReduced" -> ExpReducedDef(args[1], args[2], args[3])
    [] op = "ExpByReduction" -> ExpByReductionDef(args[1])
    [] op = "ExpNearOne" -> ExpNearOneDef(args[1])
    [] op = "MathExp" -> MathExpDef(args[1])
    [] op = "getDiodeParams" -> getDiodeParamsDef(args[1])
    [] op = "Shockley" -> ShockleyDef(args[1], args[2], args[3])
    [] op = "IdealCurrent" -> IdealCurrentDef(args[1], args[2])
    [] op = "NewtonNext" -> NewtonNextDef(args[1], args[2], args[3])
    [] op = "NewtonPass" -> NewtonPassDef(args[1], args[2], args[3])
    [] op = "NewtonLoop" -> NewtonLoopDef(args[1], args[2])
    [] op = "ClampVd" -> ClampVdDef(args[1], args[2])
    [] op = "ForwardCurrent" -> ForwardCurrentDef(args[1], args[2])
    [] op = "BreakdownCurrent" -> BreakdownCurrentDef(args[1], args[2])
    [] op = "ReverseCurrent" -> ReverseCurrentDef(args[1], args[2])
    [] op = "calculateCurrent" -> calculateCurrentDef(args[1], args[2], args[3])
    [] op = "DepletionRadicand" -> DepletionRadicandDef(args[1], args[2])
    [] op = "calculateDepletionFactor" -> calculateDepletionFactorDef(args[1], args[2])
    [] op = "ToFixed2" -> ToFixed2Def(args[1])
    [] op = "ParseFixed2" -> ParseFixed2Def(args[1])
    [] op = "vFixed" -> vFixedDef(args[1])
    [] op = "CurvePoint" -> CurvePointDef(args[1], args[2], args[3])
    [] op = "SweepBlock" -> SweepBlockDef(args[1])
    [] op = "SweepValues" -> SweepValuesDef
    [] op = "generateCurveData" -> generateCurveDataDef(args[1])
    [] op = "updateParticle" ->
         updateParticleDef(args[1], args[2], args[3], args[4])
    [] op = "BiasTypeHelper" -> BiasTypeHelperDef(args[1], args[2])
    [] op = "DerivedPhysics" ->
         DerivedPhysicsDef(args[1], args[2], args[3], args[4])
    [] op = "IVGraphRender" ->
         IVGraphRenderDef(args[1], args[2], args[3], args[4], args[5])
    [] op = "initParticles" -> initParticlesDef(args[1])
    [] op = "renderParticles" ->
         renderParticlesDef(args[1], args[2], args[3], args[4], args[5],
                            args[6])

(***************************************************************************)
(* calculateCurrent under call.  A caller picks a doping selector, a       *)
(* voltage and a mode, gets the parameters from getDiodeParams and calls   *)
(* calculateCurrent; it may then call once more with the other mode, with  *)
(* a higher voltage or with another series resistance and breakdown        *)
(* voltage, and prev keeps the first call beside the second.               *)
(***************************************************************************)
VARIABLES doping, params, voltage, mode, current, prev, pc

\* calculateDepletionFactor under call: its two arguments, its result, the
\* call before, and where the caller is.
VARIABLES depVoltage, depVbi, depFactor, depPrev, depPc

\* generateCurveData in progress: its argument, the loop variable v, the two
\* arrays, and where the function is.
VARIABLES curveParams, v, idealPoints, nonIdealPoints, curvePc

currentVars == <<doping, params, voltage, mode, current, prev, pc>>
depletionVars == <<depVoltage, depVbi, depFactor, depPrev, depPc>>
curveVars == <<curveParams, v, idealPoints, nonIdealPoints, curvePc>>

\* The App component: its useState cells, the cell of useMemo (the doping
\* the parameters were computed for, and the parameters) and the current of
\* the last render.
VARIABLES appVoltage, appDoping, appMode, isPlaying, speed, paramsMemo,
          appCurrent, biasType

appVars ==
  <<appVoltage, appDoping, appMode, isPlaying, speed, paramsMemo, appCurrent,
    biasType>>

\* IVGraph under App: whether it is mounted, the cell of its useMemo (the
\* params the curve was generated for, and the curve), the operating point
\* in mA, and the values of generateCurveData at the records of the
\* parameter table, which a mounted graph looks its curve up in.
VARIABLES graphPc, graphMemo, currentI, curves

graphVars == <<graphPc, graphMemo, currentI, curves>>

\* DiodeCanvas: the particles, the number of the frame requested last, and
\* the props the effect of render last ran with.
VARIABLES particlesRef, frameRef, canvasVoltage, canvasParams, canvasPlaying,
          canvasSpeed

canvasVars ==
  <<particlesRef, frameRef, canvasVoltage, canvasParams, canvasPlaying,
    canvasSpeed>>
vars ==
  <<currentVars, depletionVars, curveVars, appVars, graphVars, canvasVars>>

\* A number not yet computed.
Unset == [c |-> "unset", s |-> 0, m |-> <<>>, e |-> 0]
NoParams == DiodeParams(Unset, Unset, Unset, Unset, Unset)

\* A selector outside the enum reaches the default branch of the switch.
OTHER_DOPING == "Intrinsic"
Selectors == DopingLevel \cup {OTHER_DOPING}

\* Whole volts across the slider's range, -20 V at the MODERATE breakdown
\* voltage, -25 V and -60 V below the breakdown voltages of MODERATE and
\* LIGHT, and 30 V, where exp(voltage / (n * Vt)) exceeds the largest
\* number; hundredths of a volt next to zero bias, at the built-in voltage,
\* at the HEAVY breakdown voltage and on both sides of it, and a microvolt
\* below it; two voltages a nanovolt apart, on the two sides of the voltage
\* at which the MODERATE solve goes from nine to ten passes.
MaxVolts == 5
Voltages ==
  {FInt(k) : k \in ((-MaxVolts)..MaxVolts) \cup {-20, -25, -60, 30}}
    \cup {Dec(k, 2) : k \in {-460, -450, -440, -5, 5, 70}}
    \cup {Dec(k, 9) : k \in {839944723, 839944724}}
    \cup {Dec(-4500001, 6)}

\* Other series resistances and breakdown voltages for a second call.
Circuits ==
  {[Rs |-> FInt(c[1]), breakdownVoltage |-> FInt(c[2])] :
     c \in {<<0, -1>>, <<100, -100>>}}

ThisCall ==
  [voltage |-> voltage, params |-> params, mode |-> mode, current |-> current]

CurrentIdle ==
  /\ doping = MODERATE
  /\ params = NoParams
  /\ voltage = Zero(0)
  /\ mode = IDEAL
  /\ current = Unset
  /\ prev = <<>>
  /\ pc = "idle"

CurrentInit ==
  /\ doping \in Selectors
  /\ params = NoParams
  /\ voltage \in Voltages
  /\ mode \in SimulationMode
  /\ current = Unset
  /\ prev = <<>>
  /\ pc = "params"

GetParams ==
  /\ pc = "params"
  /\ params' = Apply("getDiodeParams", <<doping>>)
  /\ pc' = "calc"
  /\ UNCHANGED <<doping, voltage, mode, current, prev>>
  /\ UNCHANGED <<depletionVars, curveVars, appVars, graphVars, canvasVars>>

Calculate ==
  /\ pc = "calc"
  /\ current' = Apply("calculateCurrent", <<voltage, params, mode>>)
  /\ pc' = "done"
  /\ UNCHANGED <<doping, params, voltage, mode, prev>>
  /\ UNCHANGED <<depletionVars, curveVars, appVars, graphVars, canvasVars>>

OtherMode ==
  /\ pc = "done" /\ prev = <<>>
  /\ prev' = <<ThisCall>>
  /\ mode' = IF mode = IDEAL THEN NON_IDEAL ELSE IDEAL
  /\ current' = Unset
  /\ pc' = "calc"
  /\ UNCHANGED <<doping, params, voltage>>
  /\ UNCHANGED <<depletionVars, curveVars, appVars, graphVars, canvasVars>>

OtherVoltage ==
  /\ pc = "done" /\ prev = <<>>
  /\ \E higher \in Voltages : FLt(voltage, higher) /\ voltage' = higher
  /\ prev' = <<ThisCall>>
  /\ current' = Unset
  /\ pc' = "calc"
  /\ UNCHANGED <<doping, params, mode>>
  /\ UNCHANGED <<depletionVars, curveVars, appVars, graphVars, canvasVars>>

OtherCircuit ==
  /\ pc = "done" /\ prev = <<>>
  /\ \E c \in Circuits :
       params' = [params EXCEPT !.Rs = c.Rs,
                                !.breakdownVoltage = c.breakdownVoltage]
  /\ prev' = <<ThisCall>>
  /\ current' = Unset
  /\ pc' = "calc"
  /\ UNCHANGED <<doping, voltage, mode>>
  /\ UNCHANGED <<depletionVars, curveVars, appVars, graphVars, canvasVars>>

(***************************************************************************)
(* calculateDepletionFactor under call: a caller picks a voltage and a     *)
(* built-in voltage and calls; it may call once more at a higher voltage.  *)
(***************************************************************************)
\* Voltages that are whole volts, hundredths around the clamps Vbi - 0.05
\* of the built-in voltages below, a far reverse bias, +Infinity and NaN.
DepVoltages ==
  {FInt(k) : k \in (-MaxVolts)..MaxVolts}
    \cup {Dec(k, 2) : k \in {25, 55, 65, 80}}
    \cup {FInt(-100), Inf(0), NaN}

\* The built-in voltages of getDiodeParams, and others: 0.3 (whose clamp
\* rounds), 8 (where the lower limit 0.1 applies), 2^60 and +Infinity, and
\* 0.05 and 0.04 (at and below the radicand's floor).
BuiltInVoltages ==
  {Apply("getDiodeParams", <<d>>).Vbi : d \in DopingLevel}
    \cup {Dec(30, 2), FInt(8), TwoTo(60), Inf(0), Dec(5, 2), Dec(4, 2)}

ThisFactorCall ==
  [voltage |-> depVoltage, Vbi |-> depVbi, factor |-> depFactor]

DepletionIdle ==
  /\ depVoltage = Zero(0)
  /\ depVbi = Zero(0)
  /\ depFactor = Unset
  /\ depPrev = <<>>
  /\ depPc = "idle"

DepletionInit ==
  /\ depVoltage \in DepVoltages
  /\ depVbi \in BuiltInVoltages
  /\ depFactor = Unset
  /\ depPrev = <<>>
  /\ depPc = "calc"

Factor ==
  /\ depPc = "calc"
  /\ depFactor' =
       Apply("calculateDepletionFactor", <<depVoltage, depVbi>>)
  /\ depPc' = "done"
  /\ UNCHANGED <<depVoltage, depVbi, depPrev>>
  /\ UNCHANGED <<currentVars, curveVars, appVars, graphVars, canvasVars>>

HigherVoltage ==
  /\ depPc = "done" /\ depPrev = <<>>
  /\ \E higher \in DepVoltages :
       FLt(depVoltage, higher) /\ depVoltage' = higher
  /\ depPrev' = <<ThisFactorCall>>
  /\ depFactor' = Unset
  /\ depPc' = "calc"
  /\ UNCHANGED depVbi
  /\ UNCHANGED <<currentVars, curveVars, appVars, graphVars, canvasVars>>

(***************************************************************************)
(* generateCurveData, one turn of its for loop at a time.                  *)
(***************************************************************************)
CurveIdle ==
  /\ curveParams = NoParams
  /\ v = Zero(0)
  /\ idealPoints = <<>>
  /\ nonIdealPoints = <<>>
  /\ curvePc = "idle"

\* The call, up to the loop's initialiser.
CurveInit ==
  /\ curveParams \in {Apply("getDiodeParams", <<d>>) : d \in DopingLevel}
  /\ v = SweepStart
  /\ idealPoints = <<>>
  /\ nonIdealPoints = <<>>
  /\ curvePc = "loop"

\* The guard holds: the body pushes the two points, then v += 0.1.
CurveStep ==
  /\ curvePc = "loop"
  /\ FLe(v, SweepEnd)
  /\ idealPoints' =
       Append(idealPoints, Apply("CurvePoint", <<v, curveParams, IDEAL>>))
  /\ nonIdealPoints' =
       Append(nonIdealPoints,
              Apply("CurvePoint", <<v, curveParams, NON_IDEAL>>))
  /\ v' = FAdd(v, SweepStep)
  /\ UNCHANGED <<curveParams, curvePc>>
  /\ UNCHANGED <<currentVars, depletionVars, appVars, graphVars, canvasVars>>

\* The guard fails: return { idealPoints, nonIdealPoints }.
CurveReturn ==
  /\ curvePc = "loop"
  /\ ~FLe(v, SweepEnd)
  /\ curvePc' = "done"
  /\ UNCHANGED <<curveParams, v, idealPoints, nonIdealPoints>>
  /\ UNCHANGED <<currentVars, depletionVars, appVars, graphVars, canvasVars>>

(***************************************************************************)
(* App.  A setter of useState stores the value and React renders the       *)
(* component again: useMemo computes the parameters anew when the doping   *)
(* is not the one they were computed for, and the current is calculated    *)
(* from the voltage, these parameters and the mode.                        *)
(***************************************************************************)
VERY_SLOW == Dec(2, 1)
SLOW == Dec(5, 1)
NORMAL == FInt(1)
FAST == Dec(25, 1)
AnimationSpeed == {VERY_SLOW, SLOW, NORMAL, FAST}

\* Voltages the slider is set to: its lowest, the HEAVY breakdown voltage,
\* -4 (half a volt above it), the two ends of the unbiased band and zero,
\* and a forward one.
SliderVoltages == {Dec(k, 2) : k \in {-500, -450, -400, -5, 0, 5, 70}}

AppUnmounted ==
  /\ appVoltage = Unset
  /\ appDoping = OTHER_DOPING
  /\ appMode = IDEAL
  /\ isPlaying = FALSE
  /\ speed = Unset
  /\ paramsMemo = [deps |-> <<>>, value |-> NoParams]
  /\ appCurrent = Unset
  /\ biasType = <<>>

\* The records getDiodeParams returns.
ParameterTable == {Apply("getDiodeParams", <<d>>) : d \in DopingLevel}

GraphUnmounted ==
  /\ graphPc = "unmounted"
  /\ graphMemo = [deps |-> <<>>, value |-> <<>>]
  /\ currentI = Unset
  /\ curves = <<>>

\* The first render of IVGraph, with the props of App's first render.
GraphInit ==
  /\ graphPc = "mounted"
  /\ curves = [p \in ParameterTable |-> generateCurveData(p)]
  /\ \E shown \in {IVGraphRender(appVoltage, paramsMemo.value, appMode,
                                  [deps |-> <<>>, value |-> <<>>], curves)} :
       graphMemo = shown.memo /\ currentI = shown.currentI

\* A render of IVGraph with the props of the next state.
GraphRender ==
  IF graphPc = "mounted"
    THEN /\ \E shown \in {IVGraphRender(appVoltage', paramsMemo'.value,
                                         appMode', graphMemo, curves)} :
              graphMemo' = shown.memo /\ currentI' = shown.currentI
         /\ UNCHANGED <<graphPc, curves>>
    ELSE UNCHANGED graphVars

\* The first render.
AppInit ==
  /\ appVoltage = Zero(0)
  /\ appDoping = MODERATE
  /\ appMode = IDEAL
  /\ isPlaying = TRUE
  /\ speed = NORMAL
  /\ \E derived \in {DerivedPhysics(appVoltage, appDoping, appMode,
                                     [deps |-> <<>>, value |-> NoParams])} :
       /\ paramsMemo = derived.paramsMemo
       /\ appCurrent = derived.current
       /\ biasType = derived.biasType

\* A render with the state of the next state.
AppRender ==
  /\ \E derived \in {DerivedPhysics(appVoltage', appDoping', appMode',
                                     paramsMemo)} :
       /\ paramsMemo' = derived.paramsMemo
       /\ appCurrent' = derived.current
       /\ biasType' = derived.biasType
  /\ GraphRender
  /\ UNCHANGED <<currentVars, depletionVars, curveVars, canvasVars>>

setVoltage ==
  /\ \E x \in SliderVoltages : appVoltage' = x
  /\ UNCHANGED <<appDoping, appMode, isPlaying, speed>>
  /\ AppRender

setDoping ==
  /\ \E d \in DopingLevel : appDoping' = d
  /\ UNCHANGED <<appVoltage, appMode, isPlaying, speed>>
  /\ AppRender

setMode ==
  /\ \E m \in SimulationMode : appMode' = m
  /\ UNCHANGED <<appVoltage, appDoping, isPlaying, speed>>
  /\ AppRender

setIsPlaying ==
  /\ \E b \in BOOLEAN : isPlaying' = b
  /\ UNCHANGED <<appVoltage, appDoping, appMode, speed>>
  /\ AppRender

setSpeed ==
  /\ \E a \in AnimationSpeed : speed' = a
  /\ UNCHANGED <<appVoltage, appDoping, appMode, isPlaying>>
  /\ AppRender

(***************************************************************************)
(* DiodeCanvas: the effect that fills particlesRef once, and render, which *)
(* the second effect calls when it runs (at the mount and when one of      *)
(* voltage, params, isPlaying, speed has changed) and which every          *)
(* animation frame calls again.  frameRef holds the number of the frame    *)
(* requested last.                                                         *)
(***************************************************************************)
MaxFrames == 3
CanvasVoltages == {Zero(0), FInt(-5), Dec(70, 2)}
CanvasDopings == {MODERATE, HEAVY}
CanvasSpeeds == {NORMAL, FAST}

CanvasUnmounted ==
  /\ particlesRef = <<>>
  /\ frameRef = 0
  /\ canvasVoltage = Unset
  /\ canvasParams = NoParams
  /\ canvasPlaying = FALSE
  /\ canvasSpeed = Unset

\* The mount under the initial state of App: the first effect finds
\* particlesRef empty and fills it, the second calls render.
CanvasInit ==
  /\ canvasVoltage = Zero(0)
  /\ canvasParams = getDiodeParams(MODERATE)
  /\ canvasPlaying = TRUE
  /\ canvasSpeed = NORMAL
  /\ \E first \in RandomPhases, phase \in RandomPhases :
       LET filled == initParticles(first)
       IN  particlesRef =
             Last(<<filled,
                    renderParticles(filled, canvasVoltage, canvasParams,
                                    canvasPlaying, canvasSpeed, phase)>>)
  /\ frameRef = 1

\* render with the props of the next state, and the request of a frame.
CanvasRender ==
  /\ frameRef < MaxFrames
  /\ \E phase \in RandomPhases :
       particlesRef' = renderParticles(particlesRef, canvasVoltage',
                                       canvasParams', canvasPlaying',
                                       canvasSpeed', phase)
  /\ frameRef' = frameRef + 1
  /\ UNCHANGED <<currentVars, depletionVars, curveVars, appVars, graphVars>>

\* The browser calls render for the frame requested.
AnimationFrame ==
  /\ UNCHANGED <<canvasVoltage, canvasParams, canvasPlaying, canvasSpeed>>
  /\ CanvasRender

\* A prop of the dependency list changes: the effect runs again.
VoltageProp ==
  /\ \E x \in CanvasVoltages \ {canvasVoltage} : canvasVoltage' = x
  /\ UNCHANGED <<canvasParams, canvasPlaying, canvasSpeed>>
  /\ CanvasRender

ParamsProp ==
  /\ \E d \in CanvasDopings :
       LET record == getDiodeParams(d)
       IN  record # canvasParams /\ canvasParams' = record
  /\ UNCHANGED <<canvasVoltage, canvasPlaying, canvasSpeed>>
  /\ CanvasRender

IsPlayingProp ==
  /\ canvasPlaying' = ~canvasPlaying
  /\ UNCHANGED <<canvasVoltage, canvasParams, canvasSpeed>>
  /\ CanvasRender

SpeedProp ==
  /\ \E a \in CanvasSpeeds \ {canvasSpeed} : canvasSpeed' = a
  /\ UNCHANGED <<canvasVoltage, canvasParams, canvasPlaying>>
  /\ CanvasRender

(***************************************************************************)
(* The specifications: one per function under call, one of App, one of App *)
(* with IVGraph, and one of DiodeCanvas.                                   *)
(***************************************************************************)
Idle == AppUnmounted /\ GraphUnmounted /\ CanvasUnmounted
Init == CurrentInit /\ DepletionIdle /\ CurveIdle /\ Idle
Next == GetParams \/ Calculate \/ OtherMode \/ OtherVoltage \/ OtherCircuit
Spec == Init /\ [][Next]_vars

DepletionSpecInit == CurrentIdle /\ DepletionInit /\ CurveIdle /\ Idle
DepletionNext == Factor \/ HigherVoltage
SpecDepletion == DepletionSpecInit /\ [][DepletionNext]_vars

CurveSpecInit == CurrentIdle /\ DepletionIdle /\ CurveInit /\ Idle
CurveNext == CurveStep \/ CurveReturn
SpecCurve == CurveSpecInit /\ [][CurveNext]_vars

AppAlone == CurrentIdle /\ DepletionIdle /\ CurveIdle /\ AppInit
AppSpecInit == AppAlone /\ GraphUnmounted /\ CanvasUnmounted
AppNext == setVoltage \/ setDoping \/ setMode \/ setIsPlaying \/ setSpeed
SpecApp == AppSpecInit /\ [][AppNext]_vars

GraphSpecInit == AppAlone /\ GraphInit /\ CanvasUnmounted
SpecGraph == GraphSpecInit /\ [][AppNext]_vars

CanvasSpecInit ==
  /\ CurrentIdle /\ DepletionIdle /\ CurveIdle
  /\ AppUnmounted /\ GraphUnmounted /\ CanvasInit
CanvasNext ==
  AnimationFrame \/ VoltageProp \/ ParamsProp \/ IsPlayingProp \/ SpeedProp
SpecCanvas == CanvasSpecInit /\ [][CanvasNext]_vars

(***************************************************************************)
(* Properties of calculateCurrent and getDiodeParams, under Spec.          *)
(***************************************************************************)
\* The call before this one, when it was made with the same parameters.
SameParamsBefore == prev /= <<>> /\ prev[1].params = params

\* C1: in ideal mode at a voltage >= 0 the current is
\* Is * (exp(voltage / (n * 0.026)) - 1), and a call that differs only in
\* Rs and breakdownVoltage returns the same current.
C1_IdealForwardLaw ==
  (pc = "done" /\ mode = IDEAL /\ FGe(voltage, Zero(0))) =>
    /\ current = FMul(params.Is,
                      FSub(MathExp(FDiv(voltage,
                                        FMul(params.n, Dec(26, 3)))),
                           FOne))
    /\ (/\ prev /= <<>>
        /\ prev[1].mode = IDEAL
        /\ prev[1].voltage = voltage
        /\ prev[1].params.Is = params.Is
        /\ prev[1].params.n = params.n) => prev[1].current = current

\* An ideal forward call after one with another Rs and breakdownVoltage,
\* with a current that is not zero.
C1_Witness ==
  /\ pc = "done" /\ mode = IDEAL /\ FGt(voltage, Zero(0))
  /\ prev /= <<>> /\ prev[1].mode = IDEAL /\ prev[1].voltage = voltage
  /\ prev[1].params.Rs /= params.Rs
  /\ prev[1].params.breakdownVoltage /= params.breakdownVoltage
  /\ FGt(current, Zero(0))

\* C2: in ideal mode at a voltage < 0 the current is exactly -Is, below the
\* breakdown voltage too.
C2_IdealReverseFlat ==
  (pc = "done" /\ mode = IDEAL /\ FLt(voltage, Zero(0))) =>
    current = FNeg(params.Is)

\* An ideal call below the breakdown voltage.
C2_Witness ==
  /\ pc = "done" /\ mode = IDEAL
  /\ FLt(voltage, params.breakdownVoltage)
  /\ current = FNeg(params.Is)

\* C3: at 0 V the current is exactly 0 in both modes, for the parameters of
\* every selector, and the Newton solve started at Vd = 0 ends at Vd = 0.
C3_ZeroAtZeroBias ==
  (pc = "done" /\ IsZero(voltage)) =>
    /\ current = Zero(0)
    /\ NewtonLoop(voltage, params).Vd = Zero(0)

\* A non-ideal call at 0 V, made with the parameters getDiodeParams gave.
C3_Witness ==
  /\ pc = "done" /\ IsZero(voltage) /\ mode = NON_IDEAL
  /\ params = getDiodeParams(doping)
  /\ current = Zero(0)

\* C4: for fixed parameters the non-ideal current does not decrease as the
\* voltage rises from 0: of two non-ideal calls with the same parameters at
\* 0 <= v1 <= v2, the second returns at least the current of the first.
C4_NonIdealMonotone ==
  (/\ pc = "done" /\ mode = NON_IDEAL
   /\ SameParamsBefore /\ prev[1].mode = NON_IDEAL
   /\ FGe(prev[1].voltage, Zero(0))
   /\ FLe(prev[1].voltage, voltage)) => FLe(prev[1].current, current)

\* C5: with the Moderate parameters at 0.7 V the non-ideal current is
\* strictly below the ideal current.
C5_ModerateParams ==
  DiodeParams(Dec(1, 11), Dec(12, 1), Dec(70, 2), FInt(10), FInt(-20))

C5_SeriesResistanceLimits ==
  (/\ pc = "done" /\ params = C5_ModerateParams /\ voltage = Dec(70, 2)
   /\ SameParamsBefore /\ prev[1].voltage = voltage
   /\ prev[1].mode /= mode) =>
    IF mode = NON_IDEAL THEN FLt(current, prev[1].current)
    ELSE FLt(prev[1].current, current)

\* The ideal call at 0.7 V with the Moderate parameters, then the non-ideal.
C5_Witness ==
  /\ pc = "done" /\ params = C5_ModerateParams /\ voltage = Dec(70, 2)
  /\ mode = NON_IDEAL
  /\ SameParamsBefore /\ prev[1].voltage = voltage /\ prev[1].mode = IDEAL
  /\ FLt(current, prev[1].current)

\* C9: with the Heavy parameters the non-ideal current at -4.6 V is strictly
\* more negative than at -4.4 V, and the breakdown term is non-zero at
\* -4.6 V and zero at -4.4 V.
C9_HeavyAcrossBreakdown ==
  /\ pc = "done" /\ mode = NON_IDEAL /\ params = getDiodeParams(HEAVY)
  /\ voltage = Dec(-440, 2)
  /\ SameParamsBefore /\ prev[1].mode = NON_IDEAL
  /\ prev[1].voltage = Dec(-460, 2)

C9_BreakdownOnset ==
  C9_HeavyAcrossBreakdown =>
    /\ FLt(prev[1].current, current)
    /\ FLt(current, Zero(0))
    /\ ~IsZero(BreakdownCurrent(prev[1].voltage, params))
    /\ IsZero(BreakdownCurrent(voltage, params))
    /\ prev[1].current =
         FAdd(FAdd(Shockley(prev[1].voltage, params.Is, params.n),
                   FMul(prev[1].voltage, LeakageConductance)),
              BreakdownCurrent(prev[1].voltage, params))

\* The two calls made, with the parameters the HEAVY selector gives.
C9_Witness ==
  /\ C9_HeavyAcrossBreakdown
  /\ doping = HEAVY
  /\ params.breakdownVoltage = Dec(-45, 1)
  /\ FLt(prev[1].current, current)

\* C10: getDiodeParams returns a record for every selector: one fixed
\* record each for LIGHT, MODERATE and HEAVY, the MODERATE record for any
\* other selector, and every record has Is > 0, n >= 1, Vbi > 0, Rs >= 0 and
\* breakdownVoltage < 0.
C10_ParamsTable ==
  /\ pc = "params" => params = NoParams
  /\ (pc /= "params" /\ prev = <<>>) =>
       /\ DOMAIN params = {"Is", "n", "Vbi", "Rs", "breakdownVoltage"}
       /\ \A field \in DOMAIN params : IsFinite(params[field])
       /\ doping = LIGHT =>
            params = DiodeParams(Dec(1, 12), Dec(11, 1), Dec(60, 2),
                                 FInt(25), FInt(-50))
       /\ doping = HEAVY =>
            params = DiodeParams(Dec(1, 9), Dec(15, 1), Dec(85, 2),
                                 FInt(2), Dec(-45, 1))
       /\ doping \notin {LIGHT, HEAVY} =>
            params = DiodeParams(Dec(1, 11), Dec(12, 1), Dec(70, 2),
                                 FInt(10), FInt(-20))
       /\ FGt(params.Is, Zero(0))
       /\ FGe(params.n, FOne)
       /\ FGt(params.Vbi, Zero(0))
       /\ FGe(params.Rs, Zero(0))
       /\ FLt(params.breakdownVoltage, Zero(0))

\* The parameters returned for a selector outside the enum.
C10_Witness ==
  /\ pc = "calc" /\ prev = <<>>
  /\ doping \notin DopingLevel
  /\ params = getDiodeParams(MODERATE)

(***************************************************************************)
(* Properties of calculateDepletionFactor, under SpecDepletion.            *)
(***************************************************************************)
\* The call before this one was made at a lower or equal voltage.
RaisedVoltage ==
  /\ depPc = "done" /\ depPrev /= <<>>
  /\ depPrev[1].Vbi = depVbi
  /\ FLe(depPrev[1].voltage, depVoltage)

\* Both calls were made at or above Vbi - 0.05.
BothAtClamp ==
  /\ FGe(depPrev[1].voltage, FSub(depVbi, Dec(5, 2)))
  /\ FGe(depVoltage, FSub(depVbi, Dec(5, 2)))

InFactorRange(w) == FGe(w, Dec(1, 1)) /\ FLe(w, FInt(3))

\* C6 as stated, on finite voltages and finite Vbi > 0: the factor lies in
\* [0.1, 3.0] and the radicand Vbi - min(voltage, Vbi - 0.05) is at least
\* 0.05.
C6_RadicandAtLeastClamp ==
  (/\ depPc = "done"
   /\ IsFinite(depVoltage)
   /\ IsFinite(depVbi) /\ FGt(depVbi, Zero(0))) =>
    /\ InFactorRange(depFactor)
    /\ FGe(DepletionRadicand(depVoltage, depVbi), Dec(5, 2))

\* C6, amended: for every voltage that is not NaN and every finite Vbi > 0
\* the factor lies in [0.1, 3.0] and the radicand is not negative; the
\* radicand is at least 0.05 for the Vbi of getDiodeParams (0.60, 0.70,
\* 0.85). A NaN voltage or an infinite Vbi gives a NaN factor.
C6_FactorInRange ==
  depPc = "done" =>
    /\ FGt(depVbi, Zero(0))
    /\ (~IsNaN(depVoltage) /\ IsFinite(depVbi)) =>
         /\ InFactorRange(depFactor)
         /\ FGe(DepletionRadicand(depVoltage, depVbi), Zero(0))
         /\ depVbi \in {Dec(60, 2), Dec(70, 2), Dec(85, 2)} =>
              FGe(DepletionRadicand(depVoltage, depVbi), Dec(5, 2))
    /\ (IsNaN(depVoltage) \/ IsInf(depVbi)) => IsNaN(depFactor)

\* A factor brought up to 0.1 by the clamp, from a radicand below 0.05:
\* Vbi = 0.3 at a voltage above Vbi - 0.05.
C6_Witness ==
  /\ depPc = "done"
  /\ depVbi = Dec(30, 2) /\ FGt(depVoltage, depVbi)
  /\ FLt(DepletionRadicand(depVoltage, depVbi), Dec(5, 2))
  /\ FGt(DepletionRadicand(depVoltage, depVbi), Zero(0))
  /\ InFactorRange(depFactor)

OnTheGrid(points) ==
  /\ Len(points) = 101
  /\ \A k \in 1..Len(points) :
       FEq(points[k].v, Dec(10 * (k - 1) - 500, 2))
  /\ \A k \in 1..(Len(points) - 1) : FLt(points[k].v, points[k + 1].v)

\* C8: generateCurveData returns two series of exactly 101 points each, at
\* the voltages -5.00, -4.90, ..., 4.90, 5.00, strictly increasing; the
\* point at 5.00 is not dropped by the accumulation of v += 0.1.
C8_CurveGrid ==
  curvePc = "done" => OnTheGrid(idealPoints) /\ OnTheGrid(nonIdealPoints)

\* The loop has ended, with a last point at 5.00 taken from an accumulated v
\* that is below 5 by rounding.
C8_Witness ==
  /\ curvePc = "done"
  /\ Len(nonIdealPoints) = 101
  /\ nonIdealPoints[101].v = FInt(5)
  /\ IsZero(idealPoints[51].v)
  /\ FLt(FSub(v, SweepStep), SweepEnd)
  /\ FGt(v, SweepEnd)

(***************************************************************************)
(* More properties of getDiodeParams and calculateCurrent, under Spec.     *)
(***************************************************************************)
\* Dopings from the lightest to the heaviest.
DopingRank(d) == IF d = LIGHT THEN 1 ELSE IF d = HEAVY THEN 3 ELSE 2

\* C11: across the parameter table Rs and |breakdownVoltage| fall strictly
\* with the doping: the record returned for a doping has a smaller Rs and a
\* smaller |breakdownVoltage| than the record of every lighter doping.
C11_OrderedByDoping ==
  (pc /= "params" /\ prev = <<>>) =>
    \A lighter \in DopingLevel :
      DopingRank(lighter) < DopingRank(doping) =>
        /\ FGt(getDiodeParams(lighter).Rs, params.Rs)
        /\ FGt(FAbs(getDiodeParams(lighter).breakdownVoltage),
               FAbs(params.breakdownVoltage))

\* The HEAVY record returned: Rs = 2 and breakdownVoltage = -4.5, below the
\* MODERATE 10 and -20 and the LIGHT 25 and -50.
C11_Witness ==
  /\ pc = "calc" /\ prev = <<>> /\ doping = HEAVY
  /\ params.Rs = FInt(2)
  /\ FAbs(params.breakdownVoltage) = Dec(45, 1)
  /\ getDiodeParams(LIGHT).Rs = FInt(25)

\* A non-ideal call at a voltage >= 0 has returned.
ForwardSolved == pc = "done" /\ mode = NON_IDEAL /\ FGe(voltage, Zero(0))

\* The junction voltage the returned current was computed from.
JunctionVoltage == ClampVd(NewtonLoop(voltage, params).Vd, voltage)

\* C13: for every finite voltage, every record of the parameter table and
\* both modes, calculateCurrent returns a finite number.
C13_FiniteCurrent ==
  (pc = "done" /\ prev = <<>> /\ IsFinite(voltage)) => IsFinite(current)

\* C14: when no Newton step is below 1e-5 within 10 passes, calculateCurrent
\* still returns Is * (exp(Vd / (n * Vt)) - 1) for the last iterate, after
\* the clamp, and that is a number, not an error value.
C14_BestEffortResult ==
  (ForwardSolved /\ ~NewtonLoop(voltage, params).converged) =>
    /\ current = FMul(params.Is,
                      FSub(MathExp(FDiv(JunctionVoltage,
                                        FMul(params.n, Dec(26, 3)))),
                           FOne))
    /\ ~IsNaN(current)

\* The three terms of the reverse branch, as the claim states them.
C15_Leakage == FMul(voltage, Dec(1, 8))

C15_Shockley ==
  FMul(params.Is,
       FSub(MathExp(FDiv(voltage, FMul(params.n, Dec(26, 3)))), FOne))

C15_Breakdown ==
  IF FGe(voltage, params.breakdownVoltage) THEN Zero(0)
  ELSE FMul(FMul(FNeg(params.Is),
                 FSub(MathExp(FMul(FTwo,
                                   FSub(params.breakdownVoltage, voltage))),
                      FOne)),
            FInt(1000))

\* C15: in non-ideal mode at a voltage < 0 the current is the sum of the
\* leakage voltage * 1e-8, the Shockley term Is * (exp(voltage / (n * Vt))
\* - 1), and a breakdown term that is 0 at voltage >= breakdownVoltage and
\* -Is * (exp(2 * (breakdownVoltage - voltage)) - 1) * 1000 below it.
C15_ReverseSum ==
  (pc = "done" /\ mode = NON_IDEAL /\ FLt(voltage, Zero(0))) =>
    current = FAdd(FAdd(C15_Shockley, C15_Leakage), C15_Breakdown)

\* A non-ideal call exactly at the breakdown voltage: the breakdown term is
\* 0 and the leakage term is not.
C15_Witness ==
  /\ pc = "done" /\ mode = NON_IDEAL
  /\ voltage = params.breakdownVoltage
  /\ IsZero(C15_Breakdown)
  /\ FLt(C15_Leakage, Zero(0))
  /\ current = FAdd(C15_Shockley, C15_Leakage)

\* The Newton iteration as the claim states it: from Vd after k updates, the
\* junction voltage and the number of updates when the loop ends.
RECURSIVE C17_Iterate(_, _)
C17_Iterate(Vd, k) ==
  LET nVt == FMul(params.n, Dec(26, 3))
      IsRs == FMul(params.Is, params.Rs)
      expTerm == MathExp(FDiv(Vd, nVt))
      f == FSub(FAdd(Vd, FMul(IsRs, FSub(expTerm, FOne))), voltage)
      df == FAdd(FOne, FDiv(FMul(IsRs, expTerm), nVt))
      next == FSub(Vd, FDiv(f, df))
  IN  IF k = 10 THEN [Vd |-> Vd, updates |-> k]
      ELSE IF FLt(FAbs(FSub(next, Vd)), Dec(1, 5))
      THEN [Vd |-> next, updates |-> k + 1]
      ELSE C17_Iterate(next, k + 1)

\* C17: the Newton loop starts from Vd = voltage, updates Vd to
\* Vd - f(Vd) / f'(Vd), makes at most 10 updates, and stops right after the
\* first update smaller than 1e-5, which it keeps.
C17_NewtonLoop ==
  ForwardSolved =>
    LET sol == NewtonLoop(voltage, params)
        ref == C17_Iterate(voltage, 0)
    IN  /\ sol.Vd = ref.Vd
        /\ sol.iters = ref.updates
        /\ sol.iters \in 1..10
        /\ sol.converged \/ sol.iters = 10

\* A solve that left early, after more than one update and fewer than 10.
C17_Witness ==
  /\ ForwardSolved
  /\ FGt(voltage, Zero(0))
  /\ NewtonLoop(voltage, params).converged
  /\ NewtonLoop(voltage, params).iters \in 2..9

\* C18: in non-ideal mode at a voltage >= 0 the junction voltage the current
\* is computed from is at most the voltage, and the current is at most the
\* ideal current at the same voltage.
C18_JunctionBelowApplied ==
  ForwardSolved =>
    /\ FLe(JunctionVoltage, voltage)
    /\ FLe(current, calculateCurrent(voltage, params, IDEAL))

\* C16: at zero bias the depletion factor is exactly 1.0, for every finite
\* built-in voltage Vbi >= 0.05, and the width drawn is the base width.
C16_UnityAtZeroBias ==
  (/\ depPc = "done"
   /\ IsZero(depVoltage)
   /\ IsFinite(depVbi)
   /\ FGe(depVbi, Dec(5, 2))) =>
    /\ depFactor = FOne
    /\ currentDepletionWidth(depFactor) = FInt(BASE_DEPLETION_WIDTH)

C16_Witness ==
  /\ depPc = "done"
  /\ IsZero(depVoltage)
  /\ depVbi = Dec(5, 2)
  /\ depFactor = FOne

\* The two points a step of the loop pushes, and the loop value they are
\* pushed for.
C19_Pushed == Len(idealPoints') = Len(idealPoints) + 1

C19_Rounded == Dec(10 * Len(idealPoints) - 500, 2)

\* C19: each step of the generateCurveData loop records the loop value
\* rounded to 2 decimal places and pushes { v, 1000 * calculateCurrent(v,
\* params, IDEAL) } and { v, 1000 * calculateCurrent(v, params, NON_IDEAL) }.
C19_PointsOfStep ==
  [][C19_Pushed =>
      LET n == Len(idealPoints')
          at == idealPoints'[n].v
      IN  /\ Len(nonIdealPoints') = n
          /\ FEq(at, C19_Rounded)
          /\ FLe(FAbs(FSub(v, at)), Dec(5, 3))
          /\ idealPoints' = Append(idealPoints,
               [v |-> at,
                i |-> FMul(FInt(1000), calculateCurrent(at, curveParams, IDEAL))])
          /\ nonIdealPoints' = Append(nonIdealPoints,
               [v |-> at,
                i |-> FMul(FInt(1000),
                           calculateCurrent(at, curveParams, NON_IDEAL))])]_vars

\* A pushed pair of points on the grid, after which the loop value is off it.
C19_Witness ==
  LET k == Len(idealPoints)
  IN  /\ k >= 3
      /\ Len(nonIdealPoints) = k
      /\ idealPoints[k].v = Dec(10 * (k - 1) - 500, 2)
      /\ nonIdealPoints[k].v = idealPoints[k].v
      /\ ~FEq(v, Dec(10 * k - 500, 2))

(***************************************************************************)
(* Properties of App, under SpecApp.                                       *)
(***************************************************************************)
\* The parameters in use are those of the doping now selected, and the
\* current shown was calculated from them.
C20_ParamsInUse ==
  /\ paramsMemo.value = getDiodeParams(appDoping)
  /\ appCurrent =
       calculateCurrent(appVoltage, getDiodeParams(appDoping), appMode)

\* C20: in every state of the UI the parameters in use equal
\* getDiodeParams(doping), and a step that leaves the doping alone (setVoltage,
\* setMode, setIsPlaying, setSpeed) leaves the parameters alone.
C20_ParamsFollowDoping ==
  /\ []C20_ParamsInUse
  /\ [][appDoping' = appDoping => paramsMemo'.value = paramsMemo.value]_vars

\* Every setter has been used, the doping last but for the voltage.
C20_Witness ==
  /\ appDoping = HEAVY
  /\ paramsMemo.value = getDiodeParams(HEAVY)
  /\ appVoltage = Dec(70, 2)
  /\ appMode = NON_IDEAL
  /\ ~isPlaying
  /\ speed = FAST

(***************************************************************************)
(* Sign and reverse monotonicity of calculateCurrent, under Spec.          *)
(***************************************************************************)
\* C22: with the parameters of the table the sign of the current follows the
\* sign of the voltage in both modes: voltage > 0 gives current >= 0 (and the
\* junction voltage of the non-ideal solve is not below 0), voltage = 0 gives
\* current = 0, voltage < 0 gives current < 0.
C22_SignFollowsVoltage ==
  (pc = "done" /\ prev = <<>> /\ IsFinite(voltage)) =>
    /\ FGt(voltage, Zero(0)) => FGe(current, Zero(0))
    /\ (FGt(voltage, Zero(0)) /\ mode = NON_IDEAL) =>
         FGe(JunctionVoltage, Zero(0))
    /\ IsZero(voltage) => IsZero(current)
    /\ FLt(voltage, Zero(0)) => FLt(current, Zero(0))

\* The breakdown term of this call, and how far the voltage is below the
\* breakdown voltage.
C23_Breakdown == BreakdownCurrent(voltage, params)

C23_Overshoot == FSub(params.breakdownVoltage, voltage)

\* C23: for fixed parameters the non-ideal current does not decrease as a
\* negative voltage rises, and the breakdown term has no jump at the knee: it
\* is 0 at and above breakdownVoltage, and within 0.1 V below it is negative
\* and no larger than 3000 * Is * (breakdownVoltage - voltage).
C23_ReverseMonotone ==
  (pc = "done" /\ mode = NON_IDEAL /\ FLt(voltage, Zero(0))) =>
    /\ (SameParamsBefore /\ prev[1].mode = NON_IDEAL
          /\ FLe(prev[1].voltage, voltage)) => FLe(prev[1].current, current)
    /\ FGe(voltage, params.breakdownVoltage) => IsZero(C23_Breakdown)
    /\ (FLt(voltage, params.breakdownVoltage)
          /\ FLe(C23_Overshoot, Dec(1, 1))) =>
         /\ FLt(C23_Breakdown, Zero(0))
         /\ FLe(FAbs(C23_Breakdown),
                FMul(FMul(FInt(3000), params.Is), C23_Overshoot))

\* The HEAVY knee: a call a microvolt below the breakdown voltage, then one
\* at it.
C23_Witness ==
  /\ pc = "done" /\ mode = NON_IDEAL /\ params = getDiodeParams(HEAVY)
  /\ voltage = params.breakdownVoltage
  /\ SameParamsBefore /\ prev[1].mode = NON_IDEAL
  /\ prev[1].voltage = Dec(-4500001, 6)
  /\ FLt(prev[1].current, current)
  /\ ~IsZero(BreakdownCurrent(prev[1].voltage, params))

(***************************************************************************)
(* The two series of generateCurveData side by side, under SpecCurve.      *)
(***************************************************************************)
\* The rows IVGraph makes of the two arrays as they are now.
C24_Rows == IVGraphData(idealPoints, nonIdealPoints)

\* C24: the two series have the same length and the same voltage at every
\* index, so the index-wise merge of IVGraph reads no element past the end
\* and puts beside each ideal current the non-ideal current of its voltage.
C24_SeriesAligned ==
  LET rows == C24_Rows
      returned == generateCurveData(curveParams)
  IN  /\ Len(idealPoints) = Len(nonIdealPoints)
      /\ \A k \in 1..Len(idealPoints) :
           /\ idealPoints[k].v = nonIdealPoints[k].v
           /\ "thrown" \notin DOMAIN rows[k]
           /\ rows[k].v = nonIdealPoints[k].v
           /\ rows[k].nonIdeal = nonIdealPoints[k].i
      /\ curvePc = "done" =>
           /\ idealPoints = returned.idealPoints
           /\ nonIdealPoints = returned.nonIdealPoints

\* The returned series merged, the last row holding two different currents.
C24_Witness ==
  /\ curvePc = "done"
  /\ Len(C24_Rows) = 101
  /\ C24_Rows[101].v = FInt(5)
  /\ C24_Rows[101].nonIdeal = nonIdealPoints[101].i
  /\ FLt(C24_Rows[101].nonIdeal, C24_Rows[101].ideal)

(***************************************************************************)
(* The bias label and the views that show breakdown, under SpecApp.        *)
(***************************************************************************)
C25_Forward == FGt(appVoltage, Dec(5, 2))

C25_Breakdown ==
  /\ ~C25_Forward
  /\ FLt(appVoltage, FAdd(getDiodeParams(appDoping).breakdownVoltage, Dec(5, 1)))

C25_Reverse == ~C25_Forward /\ ~C25_Breakdown /\ FLt(appVoltage, Dec(-5, 2))

C25_Sections == ExplanationSections(appVoltage, paramsMemo.value, biasType)

\* C25: for every slider voltage and doping level App assigns exactly one of
\* the four bias labels (Forward Bias iff voltage > 0.05; otherwise Breakdown
\* Region iff voltage < breakdownVoltage + 0.5; otherwise Reverse Bias iff
\* voltage < -0.05; otherwise Unbiased), and ExplanationPanel renders exactly
\* one of its four sections, never the reverse and the breakdown section
\* together.
C25_OneLabelOneSection ==
  /\ biasType \in {UNBIASED, FORWARD_BIAS, BREAKDOWN_REGION, REVERSE_BIAS}
  /\ biasType = FORWARD_BIAS <=> C25_Forward
  /\ biasType = BREAKDOWN_REGION <=> C25_Breakdown
  /\ biasType = REVERSE_BIAS <=> C25_Reverse
  /\ biasType = UNBIASED <=> (~C25_Forward /\ ~C25_Breakdown /\ ~C25_Reverse)
  /\ Cardinality(C25_Sections) = 1
  /\ ~({"reverse", "breakdown"} \subseteq C25_Sections)

\* HEAVY at its breakdown voltage: the label is Breakdown Region and the
\* breakdown section alone is rendered.
C25_Witness ==
  /\ appDoping = HEAVY
  /\ appVoltage = getDiodeParams(HEAVY).breakdownVoltage
  /\ biasType = BREAKDOWN_REGION
  /\ C25_Sections = {"breakdown"}

\* C26: the canvas overlay 'Breakdown!' is drawn only when App's label is
\* Breakdown Region, and whenever the footer caption reports 'Breakdown
\* Voltage reached!' App's label is Breakdown Region.
C26_IndicatorsAgree ==
  /\ CanvasOverlay(appVoltage) = <<"Breakdown!">> =>
       biasType = BREAKDOWN_REGION
  /\ "reached" \in CanvasCaption(appVoltage, paramsMemo.value) =>
       biasType = BREAKDOWN_REGION

(***************************************************************************)
(* The curve and the operating point of IVGraph, under SpecGraph.          *)
(***************************************************************************)
\* Places of the series that are compared with calculateCurrent itself: the
\* points at -5 V, 0 V and 0.1 V.
C21_Samples == {1, 51, 52}

C21_GraphShown ==
  LET p == getDiodeParams(appDoping)
      shown == graphMemo.value
      xs == SweepValues
  IN  /\ graphPc = "mounted"
      /\ shown = curves[p]
      /\ Len(shown.idealPoints) = 101 /\ Len(shown.nonIdealPoints) = 101
      /\ \A k \in C21_Samples :
           /\ shown.idealPoints[k] = CurvePoint(xs[k], p, IDEAL)
           /\ shown.nonIdealPoints[k] = CurvePoint(xs[k], p, NON_IDEAL)
      /\ currentI = FMul(FInt(1000), calculateCurrent(appVoltage, p, appMode))

\* C21: in every state of the UI the curve shown by IVGraph is
\* generateCurveData(getDiodeParams(doping)) and the operating point is
\* 1000 * calculateCurrent(voltage, params, mode); a step that leaves the
\* doping alone (a change of the voltage or of the mode) leaves the points of
\* both series alone.
C21_CurveOfParams ==
  /\ []C21_GraphShown
  /\ [][appDoping' = appDoping => graphMemo'.value = graphMemo.value]_vars

\* The curve generated anew for LIGHT, then the voltage and the mode
\* changed.
C21_Witness ==
  /\ graphPc = "mounted"
  /\ appDoping = LIGHT
  /\ graphMemo.deps = <<getDiodeParams(LIGHT)>>
  /\ appVoltage = Dec(70, 2)
  /\ appMode = NON_IDEAL
  /\ FGt(currentI, Zero(0))
  /\ graphMemo.value.nonIdealPoints[58].v = appVoltage
  /\ graphMemo.value.nonIdealPoints[58].i = currentI

(***************************************************************************)
(* Properties of the particles of DiodeCanvas, under SpecCanvas.           *)
(***************************************************************************)
\* The array holds 240 particles, 120 holes and 120 electrons, and after a
\* render every x lies in [0, 800].
C27_Array ==
  /\ Len(particlesRef) = 2 * NUM_PARTICLES
  /\ Cardinality({k \in DOMAIN particlesRef :
                    particlesRef[k].type = "hole"}) = NUM_PARTICLES
  /\ Cardinality({k \in DOMAIN particlesRef :
                    particlesRef[k].type = "electron"}) = NUM_PARTICLES
  /\ \A x \in {particlesRef[k].x : k \in DOMAIN particlesRef} :
       FGe(x, Zero(0)) /\ FLe(x, FInt(WIDTH))

\* No step changes the id or the type of a particle, and a render under
\* isPlaying = false changes no particle.
C27_Step ==
  /\ DOMAIN particlesRef' = DOMAIN particlesRef
  /\ \A k \in DOMAIN particlesRef :
       /\ particlesRef'[k].id = particlesRef[k].id
       /\ particlesRef'[k].type = particlesRef[k].type
  /\ (frameRef' # frameRef /\ ~canvasPlaying') =>
       \A k \in DOMAIN particlesRef :
         /\ particlesRef'[k].x = particlesRef[k].x
         /\ particlesRef'[k].y = particlesRef[k].y
         /\ particlesRef'[k].vx = particlesRef[k].vx
         /\ particlesRef'[k].vy = particlesRef[k].vy

\* C27: after the initialisation and after every render, under any changes
\* of voltage, doping, speed and play/pause, particlesRef holds exactly 240
\* particles, 120 holes and 120 electrons, whose ids and types never
\* change; every x lies in [0, 800]; and a render while isPlaying is false
\* leaves every particle's x, y, vx and vy as they were.
C27_ParticlesKept == []C27_Array /\ [][C27_Step]_vars

\* A hole has left the canvas on the left and come back at x = 800, another
\* has been turned back at the depletion zone of the present props, and the
\* last render found the animation paused.
C27_Witness ==
  /\ frameRef > 1
  /\ ~canvasPlaying
  /\ \E k \in DOMAIN particlesRef :
       particlesRef[k].type = "hole" /\ particlesRef[k].x = FInt(WIDTH)
  /\ LET g == CanvasGeometry(canvasVoltage, canvasParams)
         turned == FSub(g.depletionLeft, FOne)
     IN  \E k \in DOMAIN particlesRef :
           particlesRef[k].type = "hole" /\ particlesRef[k].x = turned

====
